---- MODULE Spec2Model ----
(***************************************************************************)
(* Model of the self-consistency loop of the non-local DGA solver          *)
(* (scdga/nonlocal_sde.py, calculate_self_energy_q and its helpers).       *)
(*                                                                         *)
(* Every MPI rank runs the same program; pc[r] is the place rank r is at.  *)
(* A rank blocks on a collective until its data has arrived.  Numbers are  *)
(* fixed-point integers (one unit = the configured tolerance epsilon).     *)
(* A self-energy is a vector over Elems: the elements of Core lie in the   *)
(* core frequency window, the others in the tail taken from sigma_dmft.    *)
(* The numerical kernels (bubble, ladder, convolution, root finding of mu, *)
(* the Pulay least-squares solve) are inputs chosen from small sets.       *)
(***************************************************************************)
EXTENDS Integers, Sequences, FiniteSets, TLC

VARIABLES
    cfg,            \* the configuration of the run (config.*), never written
    dirs,           \* the directories: snapshots sigma_dga_iteration_<n>.npy and junk
    writers,        \* every file written during the run -> the ranks that wrote it
    pc,             \* per rank: where it stands in calculate_self_energy_q
    hartree, fock,  \* per rank: the Hartree and the Fock term
    sigma_old,      \* per rank: the iterate of the previous iteration
    sigma_new,      \* per rank: the self-energy of this iteration
    starting_iter,  \* per rank: the iteration counter the run resumed from
    current_iter,   \* per rank: the loop variable
    mu,             \* per rank: config.sys.mu
    mu_history,     \* per rank: the list mu_history
    converged,      \* per rank: the flag converged
    mixed_by,       \* the branch apply_mixing_strategy took last on rank 0
    inbox,          \* per rank: the broadcasts and scatters of rank 0 not yet received
    gathered,       \* the contributions to a gather that rank 0 has not yet taken
    reduce_buf,     \* the contributions to the running all-reduce
    reduce_left,    \* the ranks that have taken the result of the running all-reduce
    mix_in,         \* the sigma_new and sigma_old handed to the mixing applied last
    tensor,         \* a LocalNPoint object and what has been called on it
    lcorr,          \* the running call of perform_lambda_correction and find_lambda
    interaction,    \* the interaction objects and the call of as_channel on one of them
    local,          \* the running call of perform_local_schwinger_dyson
    mf,             \* the running call of a function of MFHelper
    chiq            \* the gather block of chi_phys_q_r on every rank and its files

\* the state of the self-consistency loop
scVars == <<cfg, dirs, writers, pc, hartree, fock, sigma_old, sigma_new, starting_iter,
            current_iter, mu, mu_history, converged, mixed_by, inbox, gathered,
            reduce_buf, reduce_left, mix_in>>

\* the state of the functions that are modelled call by call
callVars == <<tensor, lcorr, interaction, local, mf, chiq>>

vars == <<scVars, callVars>>

(***************************************************************************)
(* Bounds of the model.                                                    *)
(***************************************************************************)
NRanks == 2
MaxIter == 3
MaxPrev == 2

Ranks == 0 .. (NRanks - 1)
NonRoot == Ranks \ {0}
Elems == {1, 2}
Core == {1}
Zero == [e \in Elems |-> 0]
NoValue == [e \in Elems |-> -1]

(***************************************************************************)
(* Program constants.                                                      *)
(***************************************************************************)
Epsilon == 1
RtolInv == 100000

Abs(x) == IF x < 0 THEN -x ELSE x

\* nothing has been constructed or called outside the self-consistency loop
NoCalls ==
    /\ tensor = [at |-> "none"]
    /\ lcorr = [at |-> "none"]
    /\ interaction = [at |-> "none"]
    /\ local = [at |-> "none"]
    /\ mf = [at |-> "none"]
    /\ chiq = [at |-> "none"]

RECURSIVE SumOver(_, _)
SumOver(f, S) ==
    IF S = {} THEN 0
    ELSE LET x == CHOOSE y \in S : TRUE IN f[x] + SumOver(f, S \ {x})

Max(S) == CHOOSE x \in S : \A y \in S : y <= x

(***************************************************************************)
(* The inputs of a run.                                                    *)
(***************************************************************************)
\* config.self_consistency.mixing as a fraction num/den
MixingValues == {[num |-> 1, den |-> 2], [num |-> 1, den |-> 1]}
\* mixing_strategy and mixing_history_length
MixingStrategies == {[strategy |-> "linear", history |-> 1],
                     [strategy |-> "pulay", history |-> 1],
                     [strategy |-> "pulay", history |-> 2]}
BigSigma == [e \in Elems |-> IF e \in Core THEN 200000 ELSE 0]
\* the interaction U with the DMFT self-energy that belongs to it
Systems == {[u |-> 0, sigma_dmft |-> Zero], [u |-> 1, sigma_dmft |-> BigSigma]}
\* the partial self-energy convolution of one rank (calculate_sigma_from_kernel)
PartialValues == {0, 2}
\* the outcomes of the root finding update_mu
MuValues == {0, 1}
\* the outcomes of the Pulay extrapolation on the core window
PulayUpdates == {0, 2}

Paths == {"", "missing", "prev", "out"}
Dirs == {"out", "prev"}
PathExists(path) == path \in Dirs

\* the snapshot a previous run left behind as sigma_dga_iteration_<n>.npy
PrevSnapshot(n) == [e \in Elems |-> 4 * n]
\* a previous run (or a chain of resumed runs) leaves consecutive snapshots
SnapshotRanges == {lo .. hi : lo \in 1 .. MaxPrev, hi \in 0 .. MaxPrev}
EmptyDir == [snap |-> [n \in {} |-> Zero], junk |-> FALSE]
\* ... and possibly a file the wildcard matches and the pattern does not
PrevDirs == {[snap |-> [n \in S |-> PrevSnapshot(n)], junk |-> FALSE] : S \in SnapshotRanges}
              \cup {[snap |-> [n \in S |-> PrevSnapshot(n)], junk |-> TRUE] : S \in {{}, 1 .. MaxPrev}}

\* file names: <name>[_<channel>][_rank_<rank>][_<iteration>].npy
File(name) == [name |-> name, chan |-> "", rank |-> -1, iter |-> -1]
RankFile(name, r) == [name |-> name, chan |-> "", rank |-> r, iter |-> -1]
IterFile(name, n) == [name |-> name, chan |-> "", rank |-> -1, iter |-> n]
ChannelFile(name, ch) == [name |-> name, chan |-> ch, rank |-> -1, iter |-> -1]
ChannelRankFile(name, ch, r) == [name |-> name, chan |-> ch, rank |-> r, iter |-> -1]

(***************************************************************************)
(* get_hartree_fock for one band and a purely local interaction:           *)
(* Hartree 2 U n, Fock -U n.                                               *)
(***************************************************************************)
get_hartree_fock(u, occ) == <<2 * u * occ, -(u * occ)>>

(***************************************************************************)
(* glob.glob(os.path.join(path, "sigma_dga_iteration_*.npy")): the numbered *)
(* snapshots and any other file the wildcard matches.                      *)
(***************************************************************************)
glob(path) ==
    {[numbered |-> TRUE, n |-> k] : k \in DOMAIN dirs[path].snap}
        \cup (IF dirs[path].junk THEN {[numbered |-> FALSE, n |-> 0]} ELSE {})

(***************************************************************************)
(* get_starting_sigma: <<starting self-energy, iteration counter>>.        *)
(***************************************************************************)
\* variant: the lowest-numbered file instead of the highest-numbered one
get_starting_sigma_lowest(output_path, default_sigma) ==
    IF output_path = "" \/ ~PathExists(output_path)
    THEN <<default_sigma, 0>>
    ELSE LET files == glob(output_path)
             iterations == {f.n : f \in {g \in files : g.numbered}}
             lowest == CHOOSE x \in iterations : \A y \in iterations : x <= y
         IN  IF files = {} THEN <<default_sigma, 0>>
             ELSE IF iterations = {} THEN <<default_sigma, 0>>
             ELSE <<dirs[output_path].snap[lowest], lowest>>

get_starting_sigma(output_path, default_sigma) ==
    IF output_path = "" \/ ~PathExists(output_path)
    THEN <<default_sigma, 0>>
    ELSE LET files == glob(output_path)
             iterations == {f.n : f \in {g \in files : g.numbered}}
         IN  IF files = {} THEN <<default_sigma, 0>>
             ELSE IF iterations = {} THEN <<default_sigma, 0>>
             ELSE <<dirs[output_path].snap[Max(iterations)], Max(iterations)>>

(***************************************************************************)
(* read_last_n_sigmas_from_files: the entries <<n, k>> for the file of     *)
(* iteration n found by glob k (1: output directory, 2: previous-run       *)
(* directory), sorted by n, highest first, cut to the first n entries.     *)
(***************************************************************************)
RECURSIVE SortedReverse(_)
SortedReverse(S) ==
    IF S = {} THEN <<>>
    ELSE LET first == CHOOSE x \in S : \A y \in S :
                          y[1] < x[1] \/ (y[1] = x[1] /\ y[2] >= x[2])
         IN  <<first>> \o SortedReverse(S \ {first})

DirOfGlob(k, output_path, previous_sc_path) == IF k = 1 THEN output_path ELSE previous_sc_path

read_last_n_entries(n, output_path, previous_sc_path) ==
    LET files_output_dir == {<<f.n, 1>> : f \in {g \in glob(output_path) : g.numbered}}
        files_prev_sc_dir ==
            IF previous_sc_path # "" /\ PathExists(previous_sc_path)
            THEN {<<f.n, 2>> : f \in {g \in glob(previous_sc_path) : g.numbered}}
            ELSE {}
        last_iterations == SortedReverse(files_output_dir \cup files_prev_sc_dir)
    IN  IF Len(last_iterations) >= n THEN SubSeq(last_iterations, 1, n)
        ELSE last_iterations

read_last_n_sigmas_from_files(n, output_path, previous_sc_path) ==
    LET entries == read_last_n_entries(n, output_path, previous_sc_path)
    IN  [i \in 1 .. Len(entries) |->
            dirs[DirOfGlob(entries[i][2], output_path, previous_sc_path)].snap[entries[i][1]]]

(***************************************************************************)
(* apply_mixing_strategy.                                                  *)
(***************************************************************************)
\* variant: the weights of sigma_new and sigma_old exchanged
linear_mixing_swapped(mixing, new, old) ==
    [e \in Elems |-> (mixing.num * old[e] + (mixing.den - mixing.num) * new[e]) \div mixing.den]

\* config.self_consistency.mixing * sigma_new + (1 - mixing) * sigma_old
linear_mixing(mixing, new, old) ==
    [e \in Elems |-> (mixing.num * new[e] + (mixing.den - mixing.num) * old[e]) \div mixing.den]

\* the condition of the Pulay branch
pulay_branch(iter) ==
    /\ cfg.mixing_strategy = "pulay"
    /\ iter > cfg.mixing_history_length
    /\ cfg.save_iter
    /\ cfg.save_quantities

\* list[-k] of Python; defined for k <= len(list) only
FromEnd(list, k) == list[Len(list) - k + 1]

last_proposals == <<cfg.sigma_dmft>> \o
    read_last_n_sigmas_from_files(cfg.mixing_history_length, "out", cfg.previous_sc_path)

last_results(new) ==
    Append(read_last_n_sigmas_from_files(cfg.mixing_history_length, "out", cfg.previous_sc_path), new)

\* get_proposal(-2 - i) or get_result(-2 - i) reaches before the start of its list
pulay_index_error(new) ==
    \E i \in 0 .. (cfg.mixing_history_length - 1) :
        2 + i > Len(last_proposals) \/ 2 + i > Len(last_results(new))

\* column i of f_matrix on the core window: result_diff - proposal_diff
f_matrix_column(new, i) ==
    [e \in Core |->
        (FromEnd(last_results(new), 1 + i)[e] - FromEnd(last_results(new), 2 + i)[e])
      - (FromEnd(last_proposals, 1 + i)[e] - FromEnd(last_proposals, 2 + i)[e])]

\* a zero column makes f_matrix.T @ f_matrix exactly singular: np.linalg.inv raises
pulay_singular(new) ==
    \E i \in 0 .. (cfg.mixing_history_length - 1) :
        \A e \in Core : f_matrix_column(new, i)[e] = 0

\* the Pulay branch raises: IndexError first, else LinAlgError
pulay_raises(new) == IF pulay_index_error(new) THEN TRUE ELSE pulay_singular(new)

\* the Pulay branch writes sigma_old + update into the core window of sigma_new
pulay_mixing(new, old, update) ==
    [e \in Elems |-> IF e \in Core THEN old[e] + update ELSE new[e]]

(***************************************************************************)
(* np.allclose(a, b, atol=atol): |a - b| <= atol + rtol * |b| element-wise *)
(* with numpy's default rtol = 1 / RtolInv.                                *)
(***************************************************************************)
\* variant: numpy's relative tolerance left out
allclose_atol_only(a, b, atol) ==
    \A e \in Elems : Abs(a[e] - b[e]) <= atol

allclose(a, b, atol) ==
    \A e \in Elems : Abs(a[e] - b[e]) <= atol + (Abs(b[e]) \div RtolInv)

(***************************************************************************)
(* The state after the arguments and the configuration have been set up.   *)
(***************************************************************************)
Config(l, n, o) ==
    [max_iter |-> l.max_iter,
     mixing |-> n.mixing,
     mixing_strategy |-> l.strategy.strategy,
     mixing_history_length |-> l.strategy.history,
     save_iter |-> l.save_iter,
     save_quantities |-> l.save_quantities,
     perform_eliashberg |-> o.eliashberg,
     perform_lambda_correction |-> o.lambda,
     previous_sc_path |-> l.path,
     u |-> n.system.u,
     occ |-> 1,
     mu |-> 0,
     sigma_dmft |-> n.system.sigma_dmft,
     sigma_local |-> Zero]

\* the settings that decide which mixing branch runs and what a resumed run finds
LoopSettings ==
    {[max_iter |-> m, strategy |-> s, save_iter |-> si, save_quantities |-> sq, path |-> p] :
        m \in 0 .. MaxIter, s \in MixingStrategies, si \in BOOLEAN, sq \in BOOLEAN,
        p \in Paths}
\* the settings that decide the numbers
NumericSettings == {[mixing |-> a, system |-> sys] : a \in MixingValues, sys \in Systems}
\* the settings that decide which intermediate quantities are written or corrected
OutputSettings == {[eliashberg |-> el, lambda |-> lc] : el \in BOOLEAN, lc \in BOOLEAN}

FullDir == [snap |-> [n \in 1 .. MaxPrev |-> PrevSnapshot(n)], junk |-> FALSE]
\* the directory a chain of resumed runs leaves when every run writes to a
\* directory of its own: the last snapshot only
LastOnlyDir == [snap |-> [n \in {MaxPrev} |-> PrevSnapshot(n)], junk |-> FALSE]

Linear(l) == l.strategy.strategy = "linear"
Checkpointing(l) == l.save_iter /\ l.save_quantities

\* what the previous-run path of a loop setting can hold
DirsFor(l) ==
    IF l.path \notin Dirs THEN {EmptyDir}
    ELSE IF l.path = "prev" /\ l.max_iter = 1 THEN PrevDirs
    ELSE {EmptyDir, FullDir, LastOnlyDir}

\* fresh and resumed runs.  Linear mixing with checkpointing: every budget;
\* linear mixing with the other combinations of the save flags, Pulay mixing
\* without checkpointing, resumed Pulay mixing: one or two iterations; fresh
\* Pulay mixing: the whole budget
LoopCases ==
    {l \in LoopSettings :
        \/ Linear(l) /\ Checkpointing(l) /\ l.path \in {"", "prev"}
        \/ Linear(l) /\ Checkpointing(l) /\ l.path \in {"missing", "out"} /\ l.max_iter <= 2
        \/ Linear(l) /\ ~Checkpointing(l) /\ l.path = "" /\ l.max_iter = 2
        \/ ~Linear(l) /\ Checkpointing(l) /\ l.path = "" /\ l.max_iter = MaxIter
        \/ ~Linear(l) /\ Checkpointing(l) /\ l.path \in {"prev", "out"} /\ l.max_iter \in {1, 2}
        \/ ~Linear(l) /\ ~Checkpointing(l) /\ l.path = "" /\ l.max_iter = 2
             /\ l.strategy.history = 1}
\* the loop settings every choice of numbers is run with
NumericLoopSettings ==
    {l \in LoopSettings :
        /\ Checkpointing(l)
        /\ \/ Linear(l) /\ l.path = "" /\ l.max_iter = MaxIter
           \/ Linear(l) /\ l.path = "prev" /\ l.max_iter = 2
           \/ ~Linear(l) /\ l.strategy.history = 1 /\ l.path = "" /\ l.max_iter = 2}
\* the loop settings every choice of outputs is run with
OutputLoopSettings ==
    {l \in LoopSettings :
        /\ l.max_iter = 2 /\ Linear(l) /\ l.path = ""
        /\ l.save_iter = l.save_quantities}
BaseNumericSettings == {n \in NumericSettings : n.mixing.den = 1 /\ n.system.u = 1}
BaseOutputSettings == {o \in OutputSettings : o.eliashberg /\ ~o.lambda}

Scenario(l, n, o, prev) == [cfg |-> Config(l, n, o), prev |-> prev]

Scenarios ==
    UNION {{Scenario(l, n, o, prev) : prev \in DirsFor(l)} :
              l \in LoopCases, n \in BaseNumericSettings, o \in BaseOutputSettings}
    \cup
    UNION {{Scenario(l, n, o, prev) : prev \in DirsFor(l) \cap {EmptyDir, FullDir}} :
              l \in NumericLoopSettings, n \in NumericSettings, o \in BaseOutputSettings}
    \cup
    UNION {{Scenario(l, n, o, prev) : prev \in DirsFor(l)} :
              l \in OutputLoopSettings, n \in BaseNumericSettings, o \in OutputSettings}

NoPartial == -1

InitRun(c, prev) ==
    /\ cfg = c
    /\ dirs = [d \in Dirs |-> IF d = c.previous_sc_path THEN prev ELSE EmptyDir]
    /\ writers = <<>>
    /\ pc = [r \in Ranks |-> "hf"]
    /\ hartree = [r \in Ranks |-> 0]
    /\ fock = [r \in Ranks |-> 0]
    /\ sigma_old = [r \in Ranks |-> NoValue]
    /\ sigma_new = [r \in Ranks |-> NoValue]
    /\ starting_iter = [r \in Ranks |-> 0]
    /\ current_iter = [r \in Ranks |-> 0]
    /\ mu = [r \in Ranks |-> c.mu]
    /\ mu_history = [r \in Ranks |-> <<>>]
    /\ converged = [r \in Ranks |-> FALSE]
    /\ mixed_by = "none"
    /\ inbox = [r \in Ranks |-> <<>>]
    /\ gathered = {}
    /\ reduce_buf = [r \in Ranks |-> NoPartial]
    /\ reduce_left = {}
    /\ mix_in = [new |-> NoValue, old |-> NoValue]

Init == \E s \in Scenarios : InitRun(s.cfg, s.prev) /\ NoCalls

(***************************************************************************)
(* Collectives.                                                            *)
(***************************************************************************)
\* rank 0 hands msg to every other rank (bcast, scatter)
SendAll(msg) == [r \in Ranks |-> IF r = 0 THEN inbox[r] ELSE Append(inbox[r], msg)]

\* rank r is handed the next message of rank 0
Receives(r, tag) == r \in NonRoot /\ inbox[r] # <<>> /\ Head(inbox[r])[1] = tag

Received(r) == [inbox EXCEPT ![r] = Tail(@)]

\* save(name=...) and np.save: rank r writes file f
Written(w, f, r) ==
    IF f \in DOMAIN w THEN [w EXCEPT ![f] = @ \cup {r}] ELSE w @@ (f :> {r})

RECURSIVE WrittenAll(_, _, _)
WrittenAll(w, fs, r) ==
    IF fs = {} THEN w
    ELSE LET f == CHOOSE g \in fs : TRUE IN WrittenAll(Written(w, f, r), fs \ {f}, r)

loopVars == <<hartree, fock, sigma_old, sigma_new, starting_iter, current_iter, mu,
              mu_history, converged>>

(***************************************************************************)
(* calculate_self_energy_q, before the loop.                               *)
(***************************************************************************)
\* rank 0 computes the Hartree and Fock terms and broadcasts them
HartreeFockRoot ==
    /\ pc[0] = "hf"
    /\ LET hf == get_hartree_fock(cfg.u, cfg.occ)
       IN  /\ hartree' = [hartree EXCEPT ![0] = hf[1]]
           /\ fock' = [fock EXCEPT ![0] = hf[2]]
           /\ inbox' = SendAll(<<"hf", hf>>)
    /\ pc' = [pc EXCEPT ![0] = "start"]
    /\ UNCHANGED <<callVars, cfg, dirs, writers, sigma_old, sigma_new, starting_iter, current_iter,
                   mu, mu_history, converged, mixed_by, gathered, reduce_buf,
                   reduce_left, mix_in>>

\* the other ranks receive them
HartreeFockRecv(r) ==
    /\ pc[r] = "hf"
    /\ Receives(r, "hf")
    /\ hartree' = [hartree EXCEPT ![r] = Head(inbox[r])[2][1]]
    /\ fock' = [fock EXCEPT ![r] = Head(inbox[r])[2][2]]
    /\ inbox' = Received(r)
    /\ pc' = [pc EXCEPT ![r] = "start"]
    /\ UNCHANGED <<callVars, cfg, dirs, writers, sigma_old, sigma_new, starting_iter, current_iter,
                   mu, mu_history, converged, mixed_by, gathered, reduce_buf,
                   reduce_left, mix_in>>

\* variant: the loop counts from starting_iter, not from starting_iter + 1
StartingSigma_from_start(r) ==
    /\ pc[r] = "start"
    /\ LET start == get_starting_sigma(cfg.previous_sc_path, cfg.sigma_dmft)
       IN  /\ sigma_old' = [sigma_old EXCEPT ![r] = start[1]]
           /\ starting_iter' = [starting_iter EXCEPT ![r] = start[2]]
           /\ IF cfg.max_iter >= 1
              THEN /\ current_iter' = [current_iter EXCEPT ![r] = start[2]]
                   /\ pc' = [pc EXCEPT ![r] = "iter"]
              ELSE /\ current_iter' = current_iter
                   /\ pc' = [pc EXCEPT ![r] = "exit"]
    /\ mu_history' = [mu_history EXCEPT ![r] = <<mu[r]>>]
    /\ UNCHANGED <<callVars, cfg, dirs, writers, hartree, fock, sigma_new, mu, converged, mixed_by,
                   inbox, gathered, reduce_buf, reduce_left, mix_in>>

\* get_starting_sigma, mu_history = [mu], and the entry into the for loop
StartingSigma(r) ==
    /\ pc[r] = "start"
    /\ LET start == get_starting_sigma(cfg.previous_sc_path, cfg.sigma_dmft)
       IN  /\ sigma_old' = [sigma_old EXCEPT ![r] = start[1]]
           /\ starting_iter' = [starting_iter EXCEPT ![r] = start[2]]
           /\ IF cfg.max_iter >= 1
              THEN /\ current_iter' = [current_iter EXCEPT ![r] = start[2] + 1]
                   /\ pc' = [pc EXCEPT ![r] = "iter"]
              ELSE /\ current_iter' = current_iter
                   /\ pc' = [pc EXCEPT ![r] = "exit"]
    /\ mu_history' = [mu_history EXCEPT ![r] = <<mu[r]>>]
    /\ UNCHANGED <<callVars, cfg, dirs, writers, hartree, fock, sigma_new, mu, converged, mixed_by,
                   inbox, gathered, reduce_buf, reduce_left, mix_in>>

(***************************************************************************)
(* One iteration, up to the all-reduce of the self-energy.  Each action    *)
(* runs one rank from one blocking collective to the next.                 *)
(***************************************************************************)
Channels == {"dens", "magn"}
AtChiRoot(ch) == IF ch = "dens" THEN "chi_dens_root" ELSE "chi_magn_root"
AtChiScatter(ch) == IF ch = "dens" THEN "chi_dens_scatter" ELSE "chi_magn_scatter"
ChiGathered == cfg.perform_lambda_correction \/ cfg.save_quantities

\* files of rank r: Green's function, bubble and double-counting kernel
BeginFiles(r) ==
    {File("g_dga")}
      \cup (IF cfg.perform_eliashberg
            THEN {RankFile("gchi0_q_rank", r), RankFile("gchi0_q_inv_rank", r)}
            ELSE {})
      \cup (IF cfg.save_quantities THEN {RankFile("kernel_dc_rank", r)} ELSE {})
\* files of calculate_sigma_kernel_r_q before the gather of chi_phys_q_r
ChannelFiles(r, ch) ==
    IF cfg.perform_eliashberg
    THEN {ChannelRankFile("gchi_aux_q", ch, r), ChannelRankFile("vrg_q", ch, r)}
    ELSE {}
\* file of calculate_sigma_kernel_r_q after the scatter of chi_phys_q_r
ChannelSumFiles(r, ch) ==
    IF cfg.perform_eliashberg THEN {ChannelRankFile("gchi_aux_q_sum", ch, r)} ELSE {}
\* kernel.save(name="kernel") after the gather of the kernel
KernelFiles == IF cfg.save_quantities THEN {File("kernel")} ELSE {}

\* variant: only rank 0 takes part in the gather and scatter of chi_phys_q_r
IterationBegin_rank_branch(r) ==
    /\ pc[r] = "iter"
    /\ IF ChiGathered /\ r = 0
       THEN /\ writers' = WrittenAll(writers, BeginFiles(r) \cup ChannelFiles(r, "dens"), r)
            /\ IF r = 0
               THEN /\ pc' = [pc EXCEPT ![r] = AtChiRoot("dens")]
                    /\ gathered' = gathered
               ELSE /\ pc' = [pc EXCEPT ![r] = AtChiScatter("dens")]
                    /\ gathered' = gathered \cup {<<"dens", r>>}
       ELSE /\ writers' = WrittenAll(writers,
                    BeginFiles(r)
                      \cup UNION {ChannelFiles(r, ch) \cup ChannelSumFiles(r, ch) : ch \in Channels}
                      \cup (IF r = 0 THEN {} ELSE KernelFiles),
                    r)
            /\ IF r = 0
               THEN /\ pc' = [pc EXCEPT ![r] = "kernel"]
                    /\ gathered' = gathered
               ELSE /\ pc' = [pc EXCEPT ![r] = "kernel_scatter"]
                    /\ gathered' = gathered \cup {<<"kernel", r>>}
    /\ UNCHANGED <<callVars, cfg, dirs, loopVars, mixed_by, inbox, reduce_buf, reduce_left, mix_in>>

\* rank r from the top of the loop body to its first collective that blocks:
\* the gather of chi_phys_q_r of the density channel when it is gathered,
\* else the gather of the kernel
IterationBegin(r) ==
    /\ pc[r] = "iter"
    /\ IF ChiGathered
       THEN /\ writers' = WrittenAll(writers, BeginFiles(r) \cup ChannelFiles(r, "dens"), r)
            /\ IF r = 0
               THEN /\ pc' = [pc EXCEPT ![r] = AtChiRoot("dens")]
                    /\ gathered' = gathered
               ELSE /\ pc' = [pc EXCEPT ![r] = AtChiScatter("dens")]
                    /\ gathered' = gathered \cup {<<"dens", r>>}
       ELSE /\ writers' = WrittenAll(writers,
                    BeginFiles(r)
                      \cup UNION {ChannelFiles(r, ch) \cup ChannelSumFiles(r, ch) : ch \in Channels}
                      \cup (IF r = 0 THEN {} ELSE KernelFiles),
                    r)
            /\ IF r = 0
               THEN /\ pc' = [pc EXCEPT ![r] = "kernel"]
                    /\ gathered' = gathered
               ELSE /\ pc' = [pc EXCEPT ![r] = "kernel_scatter"]
                    /\ gathered' = gathered \cup {<<"kernel", r>>}
    /\ UNCHANGED <<callVars, cfg, dirs, loopVars, mixed_by, inbox, reduce_buf, reduce_left, mix_in>>

\* rank 0 has gathered chi_phys_q_r of channel ch: lambda correction, save,
\* scatter, and on to the next gather
ChiRoot(ch) ==
    /\ pc[0] = AtChiRoot(ch)
    /\ \A r \in NonRoot : <<ch, r>> \in gathered
    /\ gathered' = gathered \ {<<ch, r>> : r \in NonRoot}
    /\ writers' = WrittenAll(writers,
            {ChannelFile("chi_phys_q", ch)} \cup ChannelSumFiles(0, ch)
              \cup (IF ch = "dens" THEN ChannelFiles(0, "magn") ELSE {}),
            0)
    /\ inbox' = SendAll(<<AtChiScatter(ch), 0>>)
    /\ pc' = [pc EXCEPT ![0] = IF ch = "dens" THEN AtChiRoot("magn") ELSE "kernel"]
    /\ UNCHANGED <<callVars, cfg, dirs, loopVars, mixed_by, reduce_buf, reduce_left, mix_in>>

\* the other ranks receive their part of chi_phys_q_r and go on to the next
\* gather: chi_phys_q_r of the magnetic channel, then the kernel
ChiScatter(r, ch) ==
    /\ pc[r] = AtChiScatter(ch)
    /\ Receives(r, AtChiScatter(ch))
    /\ inbox' = Received(r)
    /\ writers' = WrittenAll(writers,
            ChannelSumFiles(r, ch)
              \cup (IF ch = "dens" THEN ChannelFiles(r, "magn") ELSE KernelFiles),
            r)
    /\ gathered' = gathered \cup {<<IF ch = "dens" THEN "magn" ELSE "kernel", r>>}
    /\ pc' = [pc EXCEPT ![r] = IF ch = "dens" THEN AtChiScatter("magn") ELSE "kernel_scatter"]
    /\ UNCHANGED <<callVars, cfg, dirs, loopVars, mixed_by, reduce_buf, reduce_left, mix_in>>

\* what calculate_sigma_from_kernel of one rank can contribute to the all-reduce
Partials == IF cfg.u = 0 THEN {0} ELSE PartialValues

\* rank 0 has gathered the kernel: save, map to the full zone, scatter,
\* calculate_sigma_from_kernel; its partial sum enters the all-reduce
KernelRoot ==
    /\ pc[0] = "kernel"
    /\ \A r \in NonRoot : <<"kernel", r>> \in gathered
    /\ gathered' = gathered \ {<<"kernel", r>> : r \in NonRoot}
    /\ writers' = WrittenAll(writers, KernelFiles, 0)
    /\ inbox' = SendAll(<<"kernel_scatter", 0>>)
    /\ \E partial \in Partials : reduce_buf' = [reduce_buf EXCEPT ![0] = partial]
    /\ pc' = [pc EXCEPT ![0] = "reduce_wait"]
    /\ UNCHANGED <<callVars, cfg, dirs, loopVars, mixed_by, reduce_left, mix_in>>

\* the other ranks receive their part of the kernel; their partial sums
\* enter the all-reduce
KernelScatter(r) ==
    /\ pc[r] = "kernel_scatter"
    /\ Receives(r, "kernel_scatter")
    /\ inbox' = Received(r)
    /\ \E partial \in Partials : reduce_buf' = [reduce_buf EXCEPT ![r] = partial]
    /\ pc' = [pc EXCEPT ![r] = "reduce_wait"]
    /\ UNCHANGED <<callVars, cfg, dirs, writers, loopVars, mixed_by, gathered, reduce_left, mix_in>>

\* delta_sigma = sigma_dmft - sigma_local on the core window
delta_sigma == [e \in Core |-> cfg.sigma_dmft[e] - cfg.sigma_local[e]]

\* the all-reduce returns; sigma_new + hartree + fock + delta_sigma, then the
\* tail of sigma_dmft is attached (concatenate_self_energies)
AllreduceLeave(r) ==
    /\ pc[r] = "reduce_wait"
    /\ \A q \in Ranks : reduce_buf[q] # NoPartial
    /\ r \notin reduce_left
    /\ sigma_new' = [sigma_new EXCEPT ![r] =
            [e \in Elems |-> IF e \in Core
                             THEN SumOver(reduce_buf, Ranks) + hartree[r] + fock[r] + delta_sigma[e]
                             ELSE cfg.sigma_dmft[e]]]
    /\ IF reduce_left \cup {r} = Ranks
       THEN /\ reduce_left' = {}
            /\ reduce_buf' = [q \in Ranks |-> NoPartial]
       ELSE /\ reduce_left' = reduce_left \cup {r}
            /\ reduce_buf' = reduce_buf
    /\ pc' = [pc EXCEPT ![r] = "mu"]
    /\ UNCHANGED <<callVars, cfg, dirs, writers, hartree, fock, sigma_old, starting_iter,
                   current_iter, mu, mu_history, converged, mixed_by, inbox, gathered,
                   mix_in>>

(***************************************************************************)
(* The end of an iteration: chemical potential, mixing, snapshot,          *)
(* convergence test.                                                       *)
(***************************************************************************)
\* rank 0 finds the new chemical potential from the unmixed sigma_new and broadcasts it
UpdateMuRoot ==
    /\ pc[0] = "mu"
    /\ \E new_mu \in MuValues :
           /\ mu' = [mu EXCEPT ![0] = new_mu]
           /\ mu_history' = [mu_history EXCEPT ![0] = Append(@, new_mu)]
           /\ inbox' = SendAll(<<"mu", new_mu>>)
    /\ pc' = [pc EXCEPT ![0] = "mix"]
    /\ UNCHANGED <<callVars, cfg, dirs, writers, hartree, fock, sigma_old, sigma_new, starting_iter,
                   current_iter, converged, mixed_by, gathered, reduce_buf, reduce_left,
                   mix_in>>

\* variant: a rank other than 0 keeps the chemical potential it has
UpdateMuRecv_local(r) ==
    /\ pc[r] = "mu"
    /\ Receives(r, "mu")
    /\ mu' = mu
    /\ mu_history' = [mu_history EXCEPT ![r] = Append(@, mu[r])]
    /\ inbox' = Received(r)
    /\ pc' = [pc EXCEPT ![r] = "mix"]
    /\ UNCHANGED <<callVars, cfg, dirs, writers, hartree, fock, sigma_old, sigma_new, starting_iter,
                   current_iter, converged, mixed_by, gathered, reduce_buf, reduce_left,
                   mix_in>>

\* the other ranks receive the new chemical potential
UpdateMuRecv(r) ==
    /\ pc[r] = "mu"
    /\ Receives(r, "mu")
    /\ mu' = [mu EXCEPT ![r] = Head(inbox[r])[2]]
    /\ mu_history' = [mu_history EXCEPT ![r] = Append(@, Head(inbox[r])[2])]
    /\ inbox' = Received(r)
    /\ pc' = [pc EXCEPT ![r] = "mix"]
    /\ UNCHANGED <<callVars, cfg, dirs, writers, hartree, fock, sigma_old, sigma_new, starting_iter,
                   current_iter, converged, mixed_by, gathered, reduce_buf, reduce_left,
                   mix_in>>

\* rank 0: apply_mixing_strategy, linear branch, and the broadcast of its result
MixLinearRoot ==
    /\ pc[0] = "mix"
    /\ ~pulay_branch(current_iter[0])
    /\ LET mixed == linear_mixing(cfg.mixing, sigma_new[0], sigma_old[0])
       IN  /\ sigma_new' = [sigma_new EXCEPT ![0] = mixed]
           /\ inbox' = SendAll(<<"sigma", mixed>>)
    /\ mixed_by' = "linear"
    /\ mix_in' = [new |-> sigma_new[0], old |-> sigma_old[0]]
    /\ pc' = [pc EXCEPT ![0] = "save"]
    /\ UNCHANGED <<callVars, cfg, dirs, writers, hartree, fock, sigma_old, starting_iter,
                   current_iter, mu, mu_history, converged, gathered, reduce_buf,
                   reduce_left>>

\* rank 0: apply_mixing_strategy, Pulay branch, and the broadcast of its result
MixPulayRoot ==
    /\ pc[0] = "mix"
    /\ pulay_branch(current_iter[0])
    /\ ~pulay_raises(sigma_new[0])
    /\ \E update \in PulayUpdates :
           LET mixed == pulay_mixing(sigma_new[0], sigma_old[0], update)
           IN  /\ sigma_new' = [sigma_new EXCEPT ![0] = mixed]
               /\ inbox' = SendAll(<<"sigma", mixed>>)
    /\ mixed_by' = "pulay"
    /\ mix_in' = [new |-> sigma_new[0], old |-> sigma_old[0]]
    /\ pc' = [pc EXCEPT ![0] = "save"]
    /\ UNCHANGED <<callVars, cfg, dirs, writers, hartree, fock, sigma_old, starting_iter,
                   current_iter, mu, mu_history, converged, gathered, reduce_buf,
                   reduce_left>>

\* rank 0: the Pulay branch raises (IndexError of get_proposal / get_result,
\* LinAlgError of np.linalg.inv); nothing is broadcast
MixPulayRaises ==
    /\ pc[0] = "mix"
    /\ pulay_branch(current_iter[0])
    /\ pulay_raises(sigma_new[0])
    /\ mixed_by' = "pulay"
    /\ mix_in' = [new |-> sigma_new[0], old |-> sigma_old[0]]
    /\ pc' = [pc EXCEPT ![0] = "raised"]
    /\ UNCHANGED <<callVars, cfg, dirs, writers, loopVars, inbox, gathered, reduce_buf, reduce_left>>

\* the other ranks receive the mixed self-energy; their rank is not 0, so
\* they skip the snapshot
MixRecv(r) ==
    /\ pc[r] = "mix"
    /\ Receives(r, "sigma")
    /\ sigma_new' = [sigma_new EXCEPT ![r] = Head(inbox[r])[2]]
    /\ inbox' = Received(r)
    /\ pc' = [pc EXCEPT ![r] = "conv"]
    /\ UNCHANGED <<callVars, cfg, dirs, writers, hartree, fock, sigma_old, starting_iter,
                   current_iter, mu, mu_history, converged, mixed_by, gathered, reduce_buf,
                   reduce_left, mix_in>>

\* variant: rank 0 writes no snapshot before the convergence test
SaveSnapshot_skipped ==
    /\ pc[0] = "save"
    /\ pc' = [pc EXCEPT ![0] = "conv"]
    /\ UNCHANGED <<callVars, cfg, dirs, writers, loopVars, mixed_by, inbox, gathered, reduce_buf,
                   reduce_left, mix_in>>

\* rank 0 saves sigma_dga_iteration_<current_iter> when checkpointing is on
SaveSnapshot ==
    /\ pc[0] = "save"
    /\ IF cfg.save_iter /\ cfg.save_quantities
       THEN /\ dirs' = [dirs EXCEPT !["out"].snap = (current_iter[0] :> sigma_new[0]) @@ @]
            /\ writers' = Written(writers, IterFile("sigma_dga_iteration", current_iter[0]), 0)
       ELSE UNCHANGED <<dirs, writers>>
    /\ pc' = [pc EXCEPT ![0] = "conv"]
    /\ UNCHANGED <<callVars, cfg, loopVars, mixed_by, inbox, gathered, reduce_buf, reduce_left, mix_in>>

\* sigma_old = sigma_new; break when converged, else the next pass of the
\* for loop, if the range has one
LoopTail(r, flag) ==
    /\ sigma_old' = [sigma_old EXCEPT ![r] = sigma_new[r]]
    /\ IF ~flag /\ current_iter[r] < starting_iter[r] + cfg.max_iter
       THEN /\ pc' = [pc EXCEPT ![r] = "iter"]
            /\ current_iter' = [current_iter EXCEPT ![r] = @ + 1]
       ELSE /\ pc' = [pc EXCEPT ![r] = "exit"]
            /\ current_iter' = current_iter

\* variant: the first iteration of a run is tested like every other
converged_test_every_iteration(iter, start, old, new) ==
    allclose(old, new, Epsilon)

\* the convergence test of rank 0
converged_test(iter, start, old, new) ==
    IF iter > start + 1 THEN allclose(old, new, Epsilon) ELSE FALSE

\* rank 0 tests convergence, broadcasts the flag and ends the iteration
ConvergenceRoot ==
    /\ pc[0] = "conv"
    /\ LET flag == converged_test(current_iter[0], starting_iter[0], sigma_old[0], sigma_new[0])
       IN  /\ converged' = [converged EXCEPT ![0] = flag]
           /\ inbox' = SendAll(<<"converged", flag>>)
           /\ LoopTail(0, flag)
    /\ UNCHANGED <<callVars, cfg, dirs, writers, hartree, fock, sigma_new, starting_iter,
                   mu, mu_history, mixed_by, gathered, reduce_buf, reduce_left, mix_in>>

\* variant: a rank other than 0 goes by its own flag, which is False
ConvergenceRecv_local(r) ==
    /\ pc[r] = "conv"
    /\ Receives(r, "converged")
    /\ converged' = [converged EXCEPT ![r] = FALSE]
    /\ inbox' = Received(r)
    /\ LoopTail(r, FALSE)
    /\ UNCHANGED <<callVars, cfg, dirs, writers, hartree, fock, sigma_new, starting_iter,
                   mu, mu_history, mixed_by, gathered, reduce_buf, reduce_left, mix_in>>

\* the other ranks receive the flag and end the iteration
ConvergenceRecv(r) ==
    /\ pc[r] = "conv"
    /\ Receives(r, "converged")
    /\ converged' = [converged EXCEPT ![r] = Head(inbox[r])[2]]
    /\ inbox' = Received(r)
    /\ LoopTail(r, Head(inbox[r])[2])
    /\ UNCHANGED <<callVars, cfg, dirs, writers, hartree, fock, sigma_new, starting_iter,
                   mu, mu_history, mixed_by, gathered, reduce_buf, reduce_left, mix_in>>

\* after the loop: mu_history.npy, return sigma_old
Finish(r) ==
    /\ pc[r] = "exit"
    /\ writers' = WrittenAll(writers,
            IF cfg.save_quantities THEN {File("mu_history")} ELSE {}, r)
    /\ pc' = [pc EXCEPT ![r] = "done"]
    /\ UNCHANGED <<callVars, cfg, dirs, loopVars, mixed_by, inbox, gathered, reduce_buf,
                   reduce_left, mix_in>>

Next ==
    \/ HartreeFockRoot
    \/ \E r \in NonRoot : HartreeFockRecv(r)
    \/ \E r \in Ranks : StartingSigma(r)
    \/ \E r \in Ranks : IterationBegin(r)
    \/ \E ch \in Channels : ChiRoot(ch)
    \/ \E r \in NonRoot, ch \in Channels : ChiScatter(r, ch)
    \/ KernelRoot
    \/ \E r \in NonRoot : KernelScatter(r)
    \/ \E r \in Ranks : AllreduceLeave(r)
    \/ UpdateMuRoot
    \/ \E r \in NonRoot : UpdateMuRecv(r)
    \/ MixLinearRoot
    \/ MixPulayRoot
    \/ MixPulayRaises
    \/ \E r \in NonRoot : MixRecv(r)
    \/ SaveSnapshot
    \/ ConvergenceRoot
    \/ \E r \in NonRoot : ConvergenceRecv(r)
    \/ \E r \in Ranks : Finish(r)

Spec == Init /\ [][Next]_vars

(***************************************************************************)
(* The linear branch of apply_mixing_strategy on its own: every pair of    *)
(* self-energies and every mixing factor, 0 included.                      *)
(***************************************************************************)
MaxSigma == 2
SigmaValues == [Elems -> 0 .. MaxSigma]
MixingFactors == MixingValues \cup {[num |-> 0, den |-> 1]}

InitMix ==
    \E a \in MixingFactors, new \in SigmaValues, old \in SigmaValues :
        /\ cfg = Config([max_iter |-> 1, strategy |-> [strategy |-> "linear", history |-> 1],
                         save_iter |-> FALSE, save_quantities |-> FALSE, path |-> ""],
                        [mixing |-> a, system |-> [u |-> 0, sigma_dmft |-> Zero]],
                        [eliashberg |-> FALSE, lambda |-> FALSE])
        /\ dirs = [d \in Dirs |-> EmptyDir]
        /\ writers = <<>>
        /\ pc = [r \in Ranks |-> "mix"]
        /\ hartree = [r \in Ranks |-> 0]
        /\ fock = [r \in Ranks |-> 0]
        /\ sigma_old = [r \in Ranks |-> old]
        /\ sigma_new = [r \in Ranks |-> new]
        /\ starting_iter = [r \in Ranks |-> 0]
        /\ current_iter = [r \in Ranks |-> 1]
        /\ mu = [r \in Ranks |-> 0]
        /\ mu_history = [r \in Ranks |-> <<0, 0>>]
        /\ converged = [r \in Ranks |-> FALSE]
        /\ mixed_by = "none"
        /\ inbox = [r \in Ranks |-> <<>>]
        /\ gathered = {}
        /\ reduce_buf = [r \in Ranks |-> NoPartial]
        /\ reduce_left = {}
        /\ mix_in = [new |-> NoValue, old |-> NoValue]
        /\ NoCalls

NextMix == MixLinearRoot

SpecMix == InitMix /\ [][NextMix]_vars

(***************************************************************************)
(* The loop at rest: the state of the self-consistency loop in the         *)
(* specifications of functions that are called outside of it.              *)
(***************************************************************************)
NoRun ==
    /\ cfg = Config([max_iter |-> 1, strategy |-> [strategy |-> "linear", history |-> 1],
                     save_iter |-> FALSE, save_quantities |-> FALSE, path |-> ""],
                    [mixing |-> [num |-> 1, den |-> 1], system |-> [u |-> 0, sigma_dmft |-> Zero]],
                    [eliashberg |-> FALSE, lambda |-> FALSE])
    /\ dirs = [d \in Dirs |-> EmptyDir]
    /\ writers = <<>>
    /\ pc = [r \in Ranks |-> "done"]
    /\ hartree = [r \in Ranks |-> 0]
    /\ fock = [r \in Ranks |-> 0]
    /\ sigma_old = [r \in Ranks |-> NoValue]
    /\ sigma_new = [r \in Ranks |-> NoValue]
    /\ starting_iter = [r \in Ranks |-> 0]
    /\ current_iter = [r \in Ranks |-> 0]
    /\ mu = [r \in Ranks |-> 0]
    /\ mu_history = [r \in Ranks |-> <<>>]
    /\ converged = [r \in Ranks |-> FALSE]
    /\ mixed_by = "none"
    /\ inbox = [r \in Ranks |-> <<>>]
    /\ gathered = {}
    /\ reduce_buf = [r \in Ranks |-> NoPartial]
    /\ reduce_left = {}
    /\ mix_in = [new |-> NoValue, old |-> NoValue]

(***************************************************************************)
(* LocalNPoint: the frequency axes of a tensor.  An object has             *)
(* num_wn_dimensions bosonic axes (0 or 1) and num_vn_dimensions fermionic *)
(* axes (0, 1 or 2); the orbital axes in front are carried along by every  *)
(* operation below and are left out.  An entry is a complex number         *)
(* <<re, im>>; an index is the tuple of the bosonic frequency w (if there  *)
(* is a bosonic axis) followed by the positions on the fermionic axes.     *)
(* The methods act on the object they are called on and return it.         *)
(***************************************************************************)
MaxCalls == 2

\* bosonic frequencies of the full and of the half range, fermionic positions
WnFull == -1 .. 1
WnHalf == 0 .. 1
Vn == 0 .. 1

Entries == {<<1, 2>>, <<3, 0>>}
ComplexZero == <<0, 0>>

conj(z) == <<z[1], -z[2]>>

\* np.flip along a fermionic axis
flip_vn(v) == (Cardinality(Vn) - 1) - v

Indices(num_wn, num_vn, full_niw) ==
    LET ws == IF num_wn = 0 THEN {<<>>}
              ELSE {<<w>> : w \in IF full_niw THEN WnFull ELSE WnHalf}
        vs == IF num_vn = 0 THEN {<<>>}
              ELSE IF num_vn = 1 THEN {<<v>> : v \in Vn}
              ELSE {<<v, vp>> : v \in Vn, vp \in Vn}
    IN  {a \o b : a \in ws, b \in vs}

LocalNPoint(mat, num_wn, num_vn, full_niw) ==
    [mat |-> mat, num_wn_dimensions |-> num_wn, num_vn_dimensions |-> num_vn,
     full_niw_range |-> full_niw]

LocalNPoints ==
    UNION {{LocalNPoint(m, nw, nv, full) : m \in [Indices(nw, nv, full) -> Entries]} :
           nw \in {0, 1}, nv \in {0, 1, 2}, full \in BOOLEAN}

\* the index of the entry at -w with every fermionic axis reversed
mirrored(i) == [k \in DOMAIN i |-> IF k = 1 THEN -i[k] ELSE flip_vn(i[k])]

\* the same without np.flip along the fermionic axes
to_full_niw_range_unflipped(t) ==
    IF t.num_wn_dimensions = 0 \/ t.full_niw_range THEN t
    ELSE [t EXCEPT !.full_niw_range = TRUE,
                   !.mat = [i \in Indices(1, t.num_vn_dimensions, TRUE) |->
                              IF i[1] >= 0 THEN t.mat[i]
                              ELSE conj(t.mat[[i EXCEPT ![1] = -i[1]]])]]

to_full_niw_range(t) ==
    IF t.num_wn_dimensions = 0 \/ t.full_niw_range THEN t
    ELSE [t EXCEPT !.full_niw_range = TRUE,
                   !.mat = [i \in Indices(1, t.num_vn_dimensions, TRUE) |->
                              IF i[1] >= 0 THEN t.mat[i] ELSE conj(t.mat[mirrored(i)])]]

to_half_niw_range(t) ==
    IF t.num_wn_dimensions = 0 \/ ~t.full_niw_range THEN t
    ELSE [t EXCEPT !.full_niw_range = FALSE,
                   !.mat = [i \in Indices(1, t.num_vn_dimensions, FALSE) |-> t.mat[i]]]

\* both diagonal operations raise ValueError on an object without fermionic axis
vn_raises(t) == t.num_vn_dimensions = 0

Front(i) == SubSeq(i, 1, Len(i) - 1)

\* the same with the entry copied to every (v, v')
extend_vn_to_diagonal_filled(t) ==
    IF t.num_vn_dimensions = 2 THEN t
    ELSE [t EXCEPT !.num_vn_dimensions = 2,
                   !.mat = [i \in Indices(t.num_wn_dimensions, 2, t.full_niw_range) |->
                              t.mat[Front(i)]]]

extend_vn_to_diagonal(t) ==
    IF t.num_vn_dimensions = 2 THEN t
    ELSE [t EXCEPT !.num_vn_dimensions = 2,
                   !.mat = [i \in Indices(t.num_wn_dimensions, 2, t.full_niw_range) |->
                              IF i[Len(i)] = i[Len(i) - 1] THEN t.mat[Front(i)]
                              ELSE ComplexZero]]

take_vn_diagonal(t) ==
    IF t.num_vn_dimensions = 1 THEN t
    ELSE [t EXCEPT !.num_vn_dimensions = 1,
                   !.mat = [i \in Indices(t.num_wn_dimensions, 1, t.full_niw_range) |->
                              t.mat[Append(i, i[Len(i)])]]]

\* a method is called on the object: it acts in place
Called(name, result) ==
    /\ tensor.at = "object"
    /\ Len(tensor.calls) < MaxCalls
    /\ tensor' = [tensor EXCEPT !.obj = result, !.calls = Append(@, name)]
    /\ UNCHANGED <<scVars, lcorr, interaction, local, mf, chiq>>

Raised(name, error) ==
    /\ tensor.at = "object"
    /\ Len(tensor.calls) < MaxCalls
    /\ tensor' = [tensor EXCEPT !.at = error, !.calls = Append(@, name)]
    /\ UNCHANGED <<scVars, lcorr, interaction, local, mf, chiq>>

ToFullNiwRange == Called("to_full_niw_range", to_full_niw_range(tensor.obj))

ToHalfNiwRange == Called("to_half_niw_range", to_half_niw_range(tensor.obj))

ExtendVnToDiagonal ==
    IF tensor.at = "object" /\ vn_raises(tensor.obj)
    THEN Raised("extend_vn_to_diagonal", "ValueError")
    ELSE Called("extend_vn_to_diagonal", extend_vn_to_diagonal(tensor.obj))

TakeVnDiagonal ==
    IF tensor.at = "object" /\ vn_raises(tensor.obj)
    THEN Raised("take_vn_diagonal", "ValueError")
    ELSE Called("take_vn_diagonal", take_vn_diagonal(tensor.obj))

InitTensor ==
    /\ NoRun
    /\ lcorr = [at |-> "none"]
    /\ interaction = [at |-> "none"]
    /\ local = [at |-> "none"]
    /\ mf = [at |-> "none"]
    /\ chiq = [at |-> "none"]
    /\ \E t \in LocalNPoints : tensor = [at |-> "object", obj |-> t, given |-> t, calls |-> <<>>]

NextTensor == ToFullNiwRange \/ ToHalfNiwRange \/ ExtendVnToDiagonal \/ TakeVnDiagonal

SpecTensor == InitTensor /\ [][NextTensor]_vars

(***************************************************************************)
(* Floating-point numbers.  A number is a fixed-point integer, one unit    *)
(* being 1/Scale; a result beyond the largest number overflows to Inf or   *)
(* -Inf as a float does, and NaN is the result of an invalid operation.    *)
(* No operation raises: numpy warns and goes on.  Signed zeros are not     *)
(* kept (a zero divisor counts as +0), a quotient is rounded towards zero. *)
(* The susceptibilities below have zero imaginary part, so that the        *)
(* complex arithmetic of the code is the arithmetic of the real parts.     *)
(***************************************************************************)
\* find_lambda's defaults: delta = 0.1, eps, maxiter
delta == 16
eps == 2
maxiter == 4

Scale == 10 * delta
Inf == 62500 * Scale
NaN == Inf + 1

isfinite(x) == -Inf < x /\ x < Inf
Sign(x) == IF x < 0 THEN -1 ELSE 1
overflow(x) == IF x >= Inf THEN Inf ELSE IF x <= -Inf THEN -Inf ELSE x

fneg(a) == IF a = NaN THEN NaN ELSE -a
fabs(a) == IF a = NaN THEN NaN ELSE Abs(a)
flt(a, b) == a # NaN /\ b # NaN /\ a < b

fadd(a, b) ==
    IF a = NaN \/ b = NaN THEN NaN
    ELSE IF ~isfinite(a) /\ ~isfinite(b) THEN (IF a = b THEN a ELSE NaN)
    ELSE IF ~isfinite(a) THEN a
    ELSE IF ~isfinite(b) THEN b
    ELSE overflow(a + b)

fsub(a, b) == fadd(a, fneg(b))

\* the product of two finite numbers, without leaving the integers of the checker
fmul_finite(a, b) ==
    LET hi == Abs(a) \div Scale
        lo == Abs(a) % Scale
    IN  IF hi > 0 /\ Abs(b) > Inf \div hi THEN Sign(a) * Sign(b) * Inf
        ELSE overflow(Sign(a) * Sign(b) * (hi * Abs(b) + (lo * Abs(b)) \div Scale))

fmul(a, b) ==
    IF a = NaN \/ b = NaN THEN NaN
    ELSE IF ~isfinite(a) \/ ~isfinite(b)
         THEN (IF a = 0 \/ b = 0 THEN NaN ELSE Sign(a) * Sign(b) * Inf)
    ELSE fmul_finite(a, b)

fdiv(a, b) ==
    IF a = NaN \/ b = NaN THEN NaN
    ELSE IF ~isfinite(a) THEN (IF ~isfinite(b) THEN NaN ELSE Sign(a) * Sign(b) * Inf)
    ELSE IF ~isfinite(b) THEN 0
    ELSE IF b = 0 THEN (IF a = 0 THEN NaN ELSE Sign(a) * Inf)
    ELSE overflow(Sign(a) * Sign(b) * ((Abs(a) * Scale) \div Abs(b)))

\* the number n
Number(n) == n * Scale

RECURSIVE fsum(_, _)
fsum(f, S) ==
    IF S = {} THEN 0
    ELSE LET x == CHOOSE y \in S : TRUE IN fadd(f[x], fsum(f, S \ {x}))

fmin(S) == IF NaN \in S THEN NaN ELSE CHOOSE x \in S : \A y \in S : x <= y

(***************************************************************************)
(* lambda_correction.py and perform_lambda_correction.  A physical         *)
(* susceptibility chi[q, w] lives on the points q of the irreducible       *)
(* Brillouin zone and the bosonic frequencies w, a local one on w.         *)
(***************************************************************************)
\* config.lattice.q_grid: the irreducible points and their multiplicities
IrrQ == {1, 2}
irrk_count == [q \in IrrQ |-> IF q = 1 THEN 1 ELSE 3]
nk_tot == fsum(irrk_count, IrrQ)

\* config.sys.beta
Betas == {1, 2}

\* FourPoint / LocalFourPoint without fermionic axes and with real entries
to_full_niw_range_q(chi) ==
    [p \in IrrQ \X WnFull |-> chi[<<p[1], Abs(p[2])>>]]

to_half_niw_range_q(chi) == [p \in IrrQ \X WnHalf |-> chi[p]]

to_full_niw_range_loc(chi) == [w \in WnFull |-> chi[Abs(w)]]

\* the susceptibilities of the runs: chi[q, 0] = c[q], chi[q, w] = tail for w > 0
Susceptibility(c1, c2, tail) ==
    [p \in IrrQ \X WnHalf |-> IF p[2] # 0 THEN tail ELSE IF p[1] = 1 THEN c1 ELSE c2]

Susceptibilities ==
    {Susceptibility(Number(1), Number(1) \div 2, Number(1) \div 10),
     Susceptibility(Number(1), Number(1), 0)}

LocalSusceptibilities ==
    {[w \in WnHalf |-> IF w = 0 THEN c ELSE t] :
        c \in {Number(-1), Number(1), Number(5), Number(8)}, t \in {0, Number(1)}}

get_lambda_start(chi_r) == fneg(fmin({fdiv(Number(1), chi_r[<<q, 0>>]) : q \in IrrQ}))

apply_lambda(chi_r, lambda_) ==
    [p \in DOMAIN chi_r |-> fdiv(Number(1), fadd(fdiv(Number(1), chi_r[p]), lambda_))]

\* factor = 1 / config.sys.beta / config.lattice.q_grid.nk_tot
factor(beta) == fdiv(fdiv(Number(1), Number(beta)), Number(nk_tot))

\* (config.lattice.q_grid.irrk_count[:, None] * chi).sum()
irrk_sum(chi) == fsum([p \in DOMAIN chi |-> fmul(Number(irrk_count[p[1]]), chi[p])], DOMAIN chi)

squared(chi) == [p \in DOMAIN chi |-> fmul(chi[p], chi[p])]

\* f_lam, the residual of lambda_
f_lam(chi_r_mat, lambda_, chi_r_loc_sum, beta) ==
    fsub(fmul(irrk_sum(apply_lambda(chi_r_mat, lambda_)), factor(beta)), chi_r_loc_sum)

fp_lam(chi_r_mat, lambda_, beta) ==
    fneg(fmul(irrk_sum(squared(apply_lambda(chi_r_mat, lambda_))), factor(beta)))

newton(chi_r_mat, lambda_, chi_r_loc_sum, beta) ==
    fsub(lambda_, fdiv(f_lam(chi_r_mat, lambda_, chi_r_loc_sum, beta),
                       fp_lam(chi_r_mat, lambda_, beta)))

\* the loop never runs out of passes
exhausted_never(passes) == FALSE

\* for _ in range(maxiter)
exhausted(passes) == passes >= maxiter

\* the restart as the Newton value falls below lambda_start
restarts_below_start(lambda_new, lambda_, lambda_start) == flt(lambda_new, lambda_start)

\* if lambda_new < lambda_
restarts(lambda_new, lambda_, lambda_start) == flt(lambda_new, lambda_)

\* the channel corrected against the sum of the other channel
own_channel_swapped(channel) == IF channel = "dens" THEN "magn" ELSE "dens"

\* chi_{channel}_loc.npy of the channel of chi_phys_q_r
own_channel(channel) == channel

\* the call perform_lambda_correction(chi_phys_q_r) with the files it may load
LambdaCall(type, channel, beta, chi, dens_loc, magn_loc, chi_dens) ==
    [at |-> "called", type |-> type, channel |-> channel, beta |-> beta,
     chi_phys_q_r |-> chi, chi_dens_loc |-> dens_loc, chi_magn_loc |-> magn_loc,
     chi_phys_q_dens |-> chi_dens,
     chi_r_mat |-> to_full_niw_range_q(chi), chi_r_loc_sum |-> 0, lambda_start |-> 0,
     lambda_ |-> 0, delta |-> delta, passes |-> 0, tried |-> 0, f_lam |-> 0,
     lambda_new |-> 0, by |-> "none", lambda_r |-> 0, result |-> chi]

\* the same with the search started at lambda_start itself
find_lambda_at_start(call, chi_r_loc_sum) ==
    LET start == get_lambda_start(call.chi_r_mat)
    IN  [call EXCEPT !.at = "find_lambda", !.chi_r_loc_sum = chi_r_loc_sum,
                     !.lambda_start = start, !.lambda_ = start]

\* find_lambda up to its loop
find_lambda(call, chi_r_loc_sum) ==
    LET start == get_lambda_start(call.chi_r_mat)
    IN  [call EXCEPT !.at = "find_lambda", !.chi_r_loc_sum = chi_r_loc_sum,
                     !.lambda_start = start, !.lambda_ = fadd(start, delta)]

\* the target of the magnetic channel in mode 'sp'
chi_magn_loc_sum(call) ==
    LET dens == to_full_niw_range_loc(call.chi_dens_loc)
        magn == to_full_niw_range_loc(call.chi_magn_loc)
    IN  fsub(fsum([w \in WnFull |-> fadd(dens[w], magn[w])], WnFull),
             fmul(fdiv(Number(1), Number(nk_tot)),
                  irrk_sum(to_full_niw_range_q(call.chi_phys_q_dens))))

\* the target in mode 'spch'
chi_r_loc_sum_spch(call) ==
    LET chi_r_loc == to_full_niw_range_loc(IF own_channel(call.channel) = "dens"
                                           THEN call.chi_dens_loc ELSE call.chi_magn_loc)
    IN  fdiv(fsum(chi_r_loc, WnFull), Number(call.beta))

\* perform_lambda_correction up to the loop of find_lambda
PerformLambdaCorrection ==
    /\ lcorr.at = "called"
    /\ lcorr' =
         IF lcorr.type \notin {"spch", "sp"} THEN [lcorr EXCEPT !.at = "ValueError"]
         ELSE IF lcorr.type = "spch" THEN find_lambda(lcorr, chi_r_loc_sum_spch(lcorr))
         ELSE IF lcorr.channel = "magn"
              THEN find_lambda(lcorr, fmul(fdiv(Number(1), Number(lcorr.beta)),
                                           chi_magn_loc_sum(lcorr)))
         ELSE [lcorr EXCEPT !.at = "returned"]
    /\ UNCHANGED <<scVars, tensor, interaction, local, mf, chiq>>

\* one pass of the loop of find_lambda; with the return of find_lambda, the rest of
\* perform_single_lambda_correction and of perform_lambda_correction
FindLambdaPass ==
    /\ lcorr.at = "find_lambda"
    /\ ~exhausted(lcorr.passes)
    /\ LET f == f_lam(lcorr.chi_r_mat, lcorr.lambda_, lcorr.chi_r_loc_sum, lcorr.beta)
           lambda_new == newton(lcorr.chi_r_mat, lcorr.lambda_, lcorr.chi_r_loc_sum, lcorr.beta)
           pass == [lcorr EXCEPT !.passes = @ + 1, !.tried = lcorr.lambda_, !.f_lam = f,
                                 !.lambda_new = lambda_new]
           halved == fdiv(lcorr.delta, Number(2))
           next == IF restarts(lambda_new, lcorr.lambda_, lcorr.lambda_start)
                   THEN [pass EXCEPT !.delta = halved,
                                     !.lambda_ = fadd(lcorr.lambda_start, halved)]
                   ELSE [pass EXCEPT !.lambda_ = lambda_new]
           return(call, by, lambda_r) ==
               [call EXCEPT !.at = "returned", !.by = by, !.lambda_r = lambda_r,
                            !.result = to_half_niw_range_q(apply_lambda(call.chi_r_mat,
                                                                        lambda_r))]
       IN  lcorr' = IF flt(fabs(f), eps) THEN return(pass, "eps", lambda_new)
                    ELSE IF exhausted(next.passes) THEN return(next, "maxiter", next.lambda_)
                    ELSE next
    /\ UNCHANGED <<scVars, tensor, interaction, local, mf, chiq>>

LambdaTypes == {"spch", "sp", "none"}

InitLambda ==
    /\ NoRun
    /\ tensor = [at |-> "none"]
    /\ interaction = [at |-> "none"]
    /\ local = [at |-> "none"]
    /\ mf = [at |-> "none"]
    /\ chiq = [at |-> "none"]
    /\ \E type \in LambdaTypes, channel \in {"dens", "magn"}, beta \in Betas,
          chi \in Susceptibilities, dens_loc \in LocalSusceptibilities,
          magn_loc \in LocalSusceptibilities, chi_dens \in Susceptibilities :
            lcorr = LambdaCall(type, channel, beta, chi, dens_loc, magn_loc, chi_dens)

NextLambda == PerformLambdaCorrection \/ FindLambdaPass

SpecLambda == InitLambda /\ [][NextLambda]_vars

(***************************************************************************)
(* interaction.py: LocalInteraction and NonLocalInteraction.  Objects live *)
(* on a heap and are referred to by their place on it, so that a copy and  *)
(* the object it was made from can be told apart.  mat is indexed by four  *)
(* orbitals (the momentum axes of a NonLocalInteraction are carried along  *)
(* by as_channel and are left out).                                        *)
(***************************************************************************)
SpinChannels == {"none", "dens", "magn", "sing", "trip"}

Orbitals == {1, 2}
Orbitals4 == Orbitals \X Orbitals \X Orbitals \X Orbitals

\* U_abcd of a two-band model: intra-orbital, inter-orbital, exchange
InteractionMatrix(u, v, j) ==
    [i \in Orbitals4 |->
        IF i[1] = i[2] /\ i[2] = i[3] /\ i[3] = i[4] THEN u
        ELSE IF i[1] = i[2] /\ i[3] = i[4] THEN v
        ELSE IF i[1] = i[4] /\ i[2] = i[3] THEN j
        ELSE 0]

InteractionMatrices ==
    {InteractionMatrix(u, v, j) : u \in {0, 4}, v \in {0, 2}, j \in {0, 1}}

Interaction(kind, mat, channel) == [kind |-> kind, mat |-> mat, channel |-> channel]

\* np.einsum("abcd->adcb", mat)
permute_orbitals(mat) == [i \in Orbitals4 |-> mat[<<i[1], i[4], i[3], i[2]>>]]

times(n, mat) == [i \in Orbitals4 |-> n * mat[i]]
plus(m1, m2) == [i \in Orbitals4 |-> m1[i] + m2[i]]

\* the spin combination of a channel
spin_combination(kind, mat, channel) ==
    IF kind = "local"
    THEN CASE channel = "dens" -> plus(times(2, mat), times(-1, permute_orbitals(mat)))
           [] channel = "magn" -> times(-1, permute_orbitals(mat))
           [] channel = "sing" -> plus(mat, permute_orbitals(mat))
           [] channel = "trip" -> plus(mat, times(-1, permute_orbitals(mat)))
    ELSE CASE channel = "dens" -> times(2, mat)
           [] channel = "magn" -> times(0, mat)
           [] channel = "sing" -> mat
           [] channel = "trip" -> mat

\* the object itself in the place of a copy
deepcopy_aliased(heap, ref) == [heap |-> heap, ref |-> ref]

\* copy = deepcopy(self)
deepcopy(heap, ref) == [heap |-> Append(heap, heap[ref]), ref |-> Len(heap) + 1]

\* self.as_channel(channel): the heap afterwards and the object returned, or the error
as_channel(heap, self, channel) ==
    LET copied == deepcopy(heap, self)
        copy == copied.ref
        tagged == [copied.heap EXCEPT ![copy].channel = channel]
    IN  IF copied.heap[copy].channel = channel
        THEN [heap |-> copied.heap, ref |-> copy, raised |-> "none"]
        ELSE IF copied.heap[copy].channel # "none"
        THEN [heap |-> copied.heap, ref |-> 0, raised |-> "ValueError"]
        ELSE [heap |-> Append(tagged, Interaction(tagged[copy].kind,
                                                  spin_combination(tagged[copy].kind,
                                                                   tagged[copy].mat, channel),
                                                  tagged[copy].channel)),
              ref |-> Len(tagged) + 1, raised |-> "none"]

AsChannel(channel) ==
    /\ interaction.at = "object"
    /\ LET call == as_channel(interaction.heap, interaction.self, channel)
       IN  interaction' = [interaction EXCEPT
                              !.at = IF call.raised = "none" THEN "returned" ELSE call.raised,
                              !.heap = call.heap, !.requested = channel, !.ref = call.ref]
    /\ UNCHANGED <<scVars, tensor, lcorr, local, mf, chiq>>

InitInteraction ==
    /\ NoRun
    /\ tensor = [at |-> "none"]
    /\ lcorr = [at |-> "none"]
    /\ local = [at |-> "none"]
    /\ mf = [at |-> "none"]
    /\ chiq = [at |-> "none"]
    /\ \E kind \in {"local", "nonlocal"}, mat \in InteractionMatrices, channel \in SpinChannels :
          interaction = [at |-> "object", heap |-> <<Interaction(kind, mat, channel)>>,
                         self |-> 1, given |-> Interaction(kind, mat, channel),
                         requested |-> "none", ref |-> 0]

NextInteraction == \E channel \in SpinChannels : AsChannel(channel)

SpecInteraction == InitInteraction /\ [][NextInteraction]_vars

(***************************************************************************)
(* The local vertex solver, perform_local_schwinger_dyson, with the names  *)
(* that hold its objects.  An object is what it is and its spin channel;   *)
(* a frame maps the names of one function to the objects they are bound    *)
(* to.  Of the tensors only the bare bubble is followed entry by entry:    *)
(* it is one object, bound to the name gchi0 of the solver and to the      *)
(* parameter gchi0 of both calls of create_vertex_functions, and the       *)
(* methods of LocalNPoint act on it in place.  cut_niv, invert and the     *)
(* operators +, -, @ return new objects.                                   *)
(***************************************************************************)
Object(what, channel) == [what |-> what, channel |-> channel]

\* BubbleGenerator.create_generalized_chi0: full bosonic range, two fermionic
\* axes, zero off their diagonal
Bubbles ==
    {extend_vn_to_diagonal(LocalNPoint(m, 1, 1, TRUE)) : m \in [Indices(1, 1, TRUE) -> Entries]}

Bind(frame, name, obj) == (name :> obj) @@ frame

\* del name
Unbind(frame, name) == [n \in DOMAIN frame \ {name} |-> frame[n]]

Bound(frame) == {frame[n] : n \in DOMAIN frame}

\* the objects some name of the solver or of its caller is bound to
Held == Bound(local.solver) \cup Bound(local.caller)

\* the two save calls of create_gamma_r_with_shell_correction
create_gamma_r_with_shell_correction_files(channel) ==
    {ChannelFile("gchi_inverted", channel), File("chi_tilde_core_inv")}

\* the frame of create_vertex_functions when it returns
create_vertex_functions_frame(g2_r, gchi0, gchi0_inv_core) ==
    LET entered == Bind(Bind(Bind(<<>>, "g2_r", g2_r), "gchi0", gchi0),
                        "gchi0_inv_core", gchi0_inv_core)
        channel == g2_r.channel
        gchi_r == Unbind(Bind(entered, "gchi_r", Object("gchi_r", channel)), "g2_r")
        gamma_r == Bind(gchi_r, "gamma_r", Object("gamma_r", channel))
        f_r == Bind(gamma_r, "f_r", Object("f_r", channel))
        gchi_r_aux == Bind(f_r, "gchi_r_aux", Object("gchi_r_aux", channel))
        vrg_r == Bind(gchi_r_aux, "vrg_r", Object("vrg_r", channel))
        gchi_r_aux_sum == Bind(vrg_r, "gchi_r_aux_sum", Object("gchi_r_aux_sum", channel))
    IN  Unbind(gchi_r_aux_sum, "gchi_r_aux")

\* the names of the return statement and the names the solver unpacks them to
Returned == <<"gamma_r", "gchi_r_aux_sum", "vrg_r", "f_r", "gchi_r">>
Unpacked(channel) ==
    IF channel = "dens" THEN <<"gamma_d", "gchi_d_sum", "vrg_d", "f_d", "gchi_d">>
    ELSE <<"gamma_m", "gchi_m_sum", "vrg_m", "f_m", "gchi_m">>

\* the names of the return statement of perform_local_schwinger_dyson
Results ==
    {Unpacked("dens")[k] : k \in 1 .. 5} \cup {Unpacked("magn")[k] : k \in 1 .. 5}
      \cup {"sigma_loc"}

g2_name(channel) == IF channel = "dens" THEN "g2_dens" ELSE "g2_magn"

\* perform_local_schwinger_dyson up to its first call of create_vertex_functions
CreateBubble ==
    /\ local.at = "entered"
    /\ \E gchi0 \in Bubbles :
          local' = [local EXCEPT
              !.at = "dens",
              !.gchi0 = gchi0,
              !.files = IF local.config.perform_eliashberg THEN {File("gchi0_loc")} ELSE {},
              !.solver = Bind(Bind(@, "gchi0", Object("gchi0", "none")),
                              "gchi0_inv_core", Object("gchi0_inv_core", "none"))]
    /\ UNCHANGED <<scVars, tensor, lcorr, interaction, mf, chiq>>

\* one call of create_vertex_functions, from the call to the unpacking of
\* what it returns
CreateVertexFunctions(channel) ==
    /\ local.at = channel
    /\ LET frame == create_vertex_functions_frame(local.solver[g2_name(channel)],
                                                  local.solver["gchi0"],
                                                  local.solver["gchi0_inv_core"])
       IN  local' = [local EXCEPT
               !.at = IF channel = "dens" THEN "magn" ELSE "sigma",
               !.handed = Append(@, [channel |-> channel, gchi0 |-> local.gchi0]),
               !.files = @ \cup create_gamma_r_with_shell_correction_files(channel),
               !.gchi0 = take_vn_diagonal(@),
               !.callee = frame,
               !.solver = [n \in DOMAIN @ \cup {Unpacked(channel)[k] : k \in 1 .. 5} |->
                             IF \E k \in 1 .. 5 : Unpacked(channel)[k] = n
                             THEN frame[Returned[CHOOSE k \in 1 .. 5 : Unpacked(channel)[k] = n]]
                             ELSE @[n]]]
    /\ UNCHANGED <<scVars, tensor, lcorr, interaction, mf, chiq>>

\* get_loc_self_energy_vrg and the return: the frame of the solver ends and
\* its caller holds what it returned
GetLocSelfEnergy ==
    /\ local.at = "sigma"
    /\ LET solver == Bind(local.solver, "sigma_loc", Object("sigma_loc", "none"))
       IN  local' = [local EXCEPT
               !.at = "returned",
               !.solver = <<>>,
               !.caller = [n \in DOMAIN @ \cup Results |->
                             IF n \in Results THEN solver[n] ELSE @[n]]]
    /\ UNCHANGED <<scVars, tensor, lcorr, interaction, mf, chiq>>

InitLocal ==
    /\ NoRun
    /\ mf = [at |-> "none"]
    /\ chiq = [at |-> "none"]
    /\ tensor = [at |-> "none"]
    /\ lcorr = [at |-> "none"]
    /\ interaction = [at |-> "none"]
    /\ \E perform_eliashberg \in BOOLEAN :
          LET args == Bind(Bind(<<>>, "g2_dens", Object("g2", "dens")),
                           "g2_magn", Object("g2", "magn"))
          IN  local = [at |-> "entered",
                       config |-> [perform_eliashberg |-> perform_eliashberg],
                       gchi0 |-> [at |-> "none"], handed |-> <<>>, files |-> {},
                       callee |-> <<>>, solver |-> args, caller |-> args]

NextLocal == CreateBubble \/ (\E channel \in {"dens", "magn"} : CreateVertexFunctions(channel)) \/ GetLocSelfEnergy

SpecLocal == InitLocal /\ [][NextLocal]_vars

(***************************************************************************)
(* MFHelper: the frequency shift of a bubble and the index maps of the     *)
(* channel conversions.  A call is drawn with its arguments and returns    *)
(* or raises in one step.  An array of indices is the function from the    *)
(* broadcast position <<iw, iv, ivp>> to its entry.                        *)
(***************************************************************************)
MaxWn == 6
MaxBox == 4

FrequencyShift == {"minus", "plus", "center", "none"}

min(a, b) == IF a < b THEN a ELSE b

\* MFHelper.wn(niw) and MFHelper.vn(niv) without shift
wn_range(niw) == -niw .. niw
vn_range(niv) == -niv .. (niv - 1)

\* the same with the division rounding toward zero
get_frequency_shift_truncated(wn, freq_notation) ==
    LET half == IF wn < 0 THEN -((-wn) \div 2) ELSE wn \div 2
        rest == wn - 2 * half
    IN  IF freq_notation = "plus" THEN <<0, wn>>
        ELSE IF freq_notation = "minus" THEN <<0, -wn>>
        ELSE <<half, -(half + rest)>>

\* // and % of Python round toward minus infinity, as \div and % do
get_frequency_shift(wn, freq_notation) ==
    IF freq_notation = "plus" THEN <<0, wn>>
    ELSE IF freq_notation = "minus" THEN <<0, -wn>>
    ELSE <<wn \div 2, -((wn \div 2) + (wn % 2))>>

get_frequency_shift_raises(freq_notation) == freq_notation \notin {"plus", "minus", "center"}

_get_frequencies_for_channel_conversion(niw, niv) ==
    {<<iw, iv, ivp>> : iw \in wn_range(niw), iv \in vn_range(niv), ivp \in vn_range(niv)}

get_frequencies_for_ph_to_pp_channel_conversion(niw, niv) ==
    LET niw_pp == niw \div 3
        niv_pp == min(niw \div 3, niv \div 3)
    IN  [i \in _get_frequencies_for_channel_conversion(niw_pp, niv_pp) |->
           <<niw_pp + i[2] + i[3] - i[1], niv_pp + i[2], niv_pp + i[3]>>]

get_frequencies_for_ph_to_ph_bar_channel_conversion(niw, niv) ==
    LET niw_2 == niw \div 2
        niv_2 == min(niw \div 2, niv \div 2)
    IN  [i \in _get_frequencies_for_channel_conversion(niw_2, niv_2) |->
           <<niw_2 + i[3] - i[2], niv_2 + i[3] - i[1], niv_2 + i[3]>>]

GetFrequencyShift ==
    /\ mf.at = "called"
    /\ mf.fn = "get_frequency_shift"
    /\ mf' = IF get_frequency_shift_raises(mf.args.freq_notation)
             THEN [mf EXCEPT !.at = "NotImplementedError"]
             ELSE [mf EXCEPT !.at = "returned",
                             !.result = get_frequency_shift(mf.args.wn, mf.args.freq_notation)]
    /\ UNCHANGED <<scVars, tensor, lcorr, interaction, local, chiq>>

PhToPp ==
    /\ mf.at = "called"
    /\ mf.fn = "ph_to_pp"
    /\ mf' = [mf EXCEPT !.at = "returned",
                        !.result = get_frequencies_for_ph_to_pp_channel_conversion(mf.args.niw, mf.args.niv)]
    /\ UNCHANGED <<scVars, tensor, lcorr, interaction, local, chiq>>

PhToPhBar ==
    /\ mf.at = "called"
    /\ mf.fn = "ph_to_ph_bar"
    /\ mf' = [mf EXCEPT !.at = "returned",
                        !.result = get_frequencies_for_ph_to_ph_bar_channel_conversion(mf.args.niw, mf.args.niv)]
    /\ UNCHANGED <<scVars, tensor, lcorr, interaction, local, chiq>>

InitMF ==
    /\ NoRun
    /\ chiq = [at |-> "none"]
    /\ tensor = [at |-> "none"]
    /\ lcorr = [at |-> "none"]
    /\ interaction = [at |-> "none"]
    /\ local = [at |-> "none"]
    /\ \/ \E wn \in -MaxWn .. MaxWn, freq_notation \in FrequencyShift :
             mf = [at |-> "called", fn |-> "get_frequency_shift",
                   args |-> [wn |-> wn, freq_notation |-> freq_notation], result |-> <<>>]
       \/ \E niw \in 0 .. MaxBox, niv \in 0 .. MaxBox, fn \in {"ph_to_pp", "ph_to_ph_bar"} :
             mf = [at |-> "called", fn |-> fn, args |-> [niw |-> niw, niv |-> niv],
                   result |-> <<>>]

NextMF == GetFrequencyShift \/ PhToPp \/ PhToPhBar

SpecMF == InitMF /\ [][NextMF]_vars

(***************************************************************************)
(* Construction and frequency cuts of tensor objects.  A constructor call  *)
(* is drawn with its axis counts and yields the object's attributes or an  *)
(* AssertionError; a cut is called on an object of LocalNPoints with the   *)
(* number of frequencies to keep and returns the cut tensor or raises      *)
(* ValueError.  The fermionic axes are stored over their full range: an    *)
(* axis of 2 niv positions holds the frequencies -niv .. niv - 1.          *)
(***************************************************************************)
MaxAxes == 4
MaxCut == 2

\* LocalNPoint.__init__: the assertions on the axis counts
local_n_point_asserts(num_orbital, num_wn, num_vn) ==
    /\ num_orbital \in {0, 2, 4}
    /\ num_wn \in {0, 1}
    /\ num_vn \in {0, 1, 2}

\* the same with up to three k axes
i_am_non_local_asserts_three_k(num_q, num_k) ==
    /\ num_q \in {0, 1}
    /\ num_k \in {0, 1, 2, 3}

\* IAmNonLocal.__init__: the assertions on the axis counts
i_am_non_local_asserts(num_q, num_k) ==
    /\ num_q \in {0, 1}
    /\ num_k \in {0, 1, 2}

\* the constructor of a local object, and of one that is IAmNonLocal as well
constructs(args) ==
    /\ local_n_point_asserts(args.num_orbital_dimensions, args.num_wn_dimensions,
                             args.num_vn_dimensions)
    /\ args.non_local => i_am_non_local_asserts(args.num_q_dimensions, args.num_k_dimensions)

niw(t) == IF t.num_wn_dimensions = 0 THEN 0 ELSE Max({i[1] : i \in DOMAIN t.mat})

niv(t) ==
    IF t.num_vn_dimensions = 0 THEN 0
    ELSE Cardinality({i[Len(i)] : i \in DOMAIN t.mat}) \div 2

cut_niw_raises(t, niw_cut) == t.num_wn_dimensions = 0 \/ niw_cut > niw(t)

\* the same without the test against the stored niv
cut_niv_raises_unbounded(t, niv_cut) == t.num_vn_dimensions = 0

cut_niv_raises(t, niv_cut) == t.num_vn_dimensions = 0 \/ niv_cut > niv(t)

\* the bosonic frequencies -niw_cut .. niw_cut (0 .. niw_cut of the half range)
cut_niw(t, niw_cut) ==
    [t EXCEPT !.mat = [i \in {j \in DOMAIN t.mat : Abs(j[1]) <= niw_cut} |-> t.mat[i]]]

\* an index with its fermionic positions moved by d
shifted(t, i, d) ==
    [k \in DOMAIN i |-> IF k > t.num_wn_dimensions THEN i[k] + d ELSE i[k]]

\* the 2 niv_cut central positions of every fermionic axis
cut_niv(t, niv_cut) ==
    LET first == niv(t) - niv_cut
        kept == {j \in DOMAIN t.mat :
                   \A k \in DOMAIN j :
                      k > t.num_wn_dimensions => j[k] \in first .. (first + 2 * niv_cut - 1)}
    IN  [t EXCEPT !.mat = [i \in {shifted(t, j, -first) : j \in kept} |->
                             t.mat[shifted(t, i, first)]]]

Construct ==
    /\ tensor.at = "constructor"
    /\ tensor' = IF constructs(tensor.args)
                 THEN [tensor EXCEPT !.at = "constructed"]
                 ELSE [tensor EXCEPT !.at = "AssertionError"]
    /\ UNCHANGED <<scVars, lcorr, interaction, local, mf, chiq>>

CutNiw ==
    /\ tensor.at = "object"
    /\ \E niw_cut \in 0 .. MaxCut :
          tensor' = IF cut_niw_raises(tensor.obj, niw_cut)
                    THEN [at |-> "ValueError", given |-> tensor.obj,
                          call |-> [name |-> "cut_niw", niw_cut |-> niw_cut, niv_cut |-> -1]]
                    ELSE [at |-> "returned", given |-> tensor.obj,
                          call |-> [name |-> "cut_niw", niw_cut |-> niw_cut, niv_cut |-> -1],
                          result |-> cut_niw(tensor.obj, niw_cut)]
    /\ UNCHANGED <<scVars, lcorr, interaction, local, mf, chiq>>

CutNiv ==
    /\ tensor.at = "object"
    /\ \E niv_cut \in 0 .. MaxCut :
          tensor' = IF cut_niv_raises(tensor.obj, niv_cut)
                    THEN [at |-> "ValueError", given |-> tensor.obj,
                          call |-> [name |-> "cut_niv", niw_cut |-> -1, niv_cut |-> niv_cut]]
                    ELSE [at |-> "returned", given |-> tensor.obj,
                          call |-> [name |-> "cut_niv", niw_cut |-> -1, niv_cut |-> niv_cut],
                          result |-> cut_niv(tensor.obj, niv_cut)]
    /\ UNCHANGED <<scVars, lcorr, interaction, local, mf, chiq>>

CutNiwAndNiv ==
    /\ tensor.at = "object"
    /\ \E niw_cut \in 0 .. MaxCut, niv_cut \in 0 .. MaxCut :
          LET call == [name |-> "cut_niw_and_niv", niw_cut |-> niw_cut, niv_cut |-> niv_cut]
          IN  tensor' = IF cut_niw_raises(tensor.obj, niw_cut)
                        THEN [at |-> "ValueError", given |-> tensor.obj, call |-> call]
                        ELSE IF cut_niv_raises(cut_niw(tensor.obj, niw_cut), niv_cut)
                        THEN [at |-> "ValueError", given |-> tensor.obj, call |-> call]
                        ELSE [at |-> "returned", given |-> tensor.obj, call |-> call,
                              result |-> cut_niv(cut_niw(tensor.obj, niw_cut), niv_cut)]
    /\ UNCHANGED <<scVars, lcorr, interaction, local, mf, chiq>>

InitNPoint ==
    /\ NoRun
    /\ lcorr = [at |-> "none"]
    /\ interaction = [at |-> "none"]
    /\ local = [at |-> "none"]
    /\ mf = [at |-> "none"]
    /\ chiq = [at |-> "none"]
    /\ \/ \E t \in LocalNPoints : tensor = [at |-> "object", obj |-> t]
       \/ \E o \in 0 .. MaxAxes, w \in 0 .. MaxAxes, v \in 0 .. MaxAxes :
             tensor = [at |-> "constructor",
                       args |-> [non_local |-> FALSE, num_orbital_dimensions |-> o,
                                 num_wn_dimensions |-> w, num_vn_dimensions |-> v,
                                 num_q_dimensions |-> 0, num_k_dimensions |-> 0]]
       \/ \E o \in {2, 3}, w \in {1, 2}, q \in 0 .. MaxAxes, k \in 0 .. MaxAxes :
             tensor = [at |-> "constructor",
                       args |-> [non_local |-> TRUE, num_orbital_dimensions |-> o,
                                 num_wn_dimensions |-> w, num_vn_dimensions |-> 1,
                                 num_q_dimensions |-> q, num_k_dimensions |-> k]]

NextNPoint == Construct \/ CutNiw \/ CutNiv \/ CutNiwAndNiv

SpecNPoint == InitNPoint /\ [][NextNPoint]_vars

(***************************************************************************)
(* The gather block of calculate_sigma_kernel_r_q with the lambda          *)
(* correction of rank 0 and the file chi_phys_q_<channel> it writes and    *)
(* reads, over the iterations of the loop.  Every rank runs the block for  *)
(* the density channel, then for the magnetic channel; what follows in an  *)
(* iteration is the all-reduce, which a rank leaves when every rank has    *)
(* arrived.  A file holds the number of the iteration it was written in,   *)
(* 0 for a file that was there before the run.                             *)
(***************************************************************************)
MaxChiIter == 2

ChiIters == 1 .. MaxChiIter

NextChannel(ch) == IF ch = "dens" THEN "magn" ELSE "allreduce"
AtGather(ch) == IF ch = "dens" THEN "gather_dens" ELSE "gather_magn"
AtScatter(ch) == IF ch = "dens" THEN "scatter_dens" ELSE "scatter_magn"

\* if config.lambda_correction.perform_lambda_correction or config.output.save_quantities
chi_gathered(config) == config.perform_lambda_correction \/ config.save_quantities

\* perform_lambda_correction raises ValueError
lambda_type_raises(config) == config.type \notin {"spch", "sp"}

\* perform_lambda_correction loads chi_phys_q_dens.npy
loads_chi_dens(config, ch) == config.type = "sp" /\ ch = "magn"

\* a rank reaches the block of a channel: it skips it, or it enters the gather
ChiEnter(r, ch) ==
    /\ chiq.at = "run"
    /\ chiq.pc[r] = ch
    /\ chiq' = IF ~chi_gathered(chiq.config)
              THEN [chiq EXCEPT !.pc[r] = NextChannel(ch)]
              ELSE IF r = 0 THEN [chiq EXCEPT !.pc[r] = AtGather(ch)]
              ELSE [chiq EXCEPT !.pc[r] = AtScatter(ch), !.gathered = @ \cup {<<ch, r>>}]
    /\ UNCHANGED <<scVars, tensor, lcorr, interaction, local, mf>>

\* the same without the write
chi_saved_never(files, ch, iter) == files

\* chi_phys_q_r.save(name=f"chi_phys_q_{channel}") in iteration iter
chi_saved(files, ch, iter) == (ch :> iter) @@ files

\* rank 0 has gathered chi_phys_q_r: lambda correction, save, scatter
ChiLambdaRoot(ch) ==
    /\ chiq.at = "run"
    /\ chiq.pc[0] = AtGather(ch)
    /\ \A r \in NonRoot : <<ch, r>> \in chiq.gathered
    /\ LET at_root == [chiq EXCEPT !.gathered = @ \ {<<ch, r>> : r \in NonRoot}]
           corrects == chiq.config.perform_lambda_correction
           loads == corrects /\ loads_chi_dens(chiq.config, ch)
           loaded == IF loads
                     THEN [at_root EXCEPT
                               !.loaded = Append(@, [iter |-> chiq.iter[0],
                                                     written |-> chiq.files["dens"]])]
                     ELSE at_root
       IN  chiq' = IF corrects /\ lambda_type_raises(chiq.config)
                  THEN [at_root EXCEPT !.pc[0] = "ValueError"]
                  ELSE IF loads /\ "dens" \notin DOMAIN chiq.files
                  THEN [at_root EXCEPT !.pc[0] = "FileNotFoundError"]
                  ELSE [loaded EXCEPT
                            !.files = chi_saved(@, ch, chiq.iter[0]),
                            !.inbox = [r \in Ranks |->
                                         IF r = 0 THEN @[r] ELSE Append(@[r], AtScatter(ch))],
                            !.pc[0] = NextChannel(ch)]
    /\ UNCHANGED <<scVars, tensor, lcorr, interaction, local, mf>>

\* another rank receives its part in the scatter
ChiScatterRecv(r, ch) ==
    /\ chiq.at = "run"
    /\ r \in NonRoot
    /\ chiq.pc[r] = AtScatter(ch)
    /\ chiq.inbox[r] # <<>>
    /\ Head(chiq.inbox[r]) = AtScatter(ch)
    /\ chiq' = [chiq EXCEPT !.inbox[r] = Tail(@), !.pc[r] = NextChannel(ch)]
    /\ UNCHANGED <<scVars, tensor, lcorr, interaction, local, mf>>

\* rank q has entered the all-reduce of iteration n
InAllreduce(q, n) ==
    \/ chiq.iter[q] > n
    \/ chiq.iter[q] = n /\ chiq.pc[q] \in {"allreduce", "done"}

\* a rank leaves the all-reduce and ends the iteration
ChiIterationEnd(r) ==
    /\ chiq.at = "run"
    /\ chiq.pc[r] = "allreduce"
    /\ \A q \in Ranks : InAllreduce(q, chiq.iter[r])
    /\ chiq' = IF chiq.iter[r] < chiq.config.max_iter
              THEN [chiq EXCEPT !.iter[r] = @ + 1, !.pc[r] = "dens"]
              ELSE [chiq EXCEPT !.pc[r] = "done"]
    /\ UNCHANGED <<scVars, tensor, lcorr, interaction, local, mf>>

InitChi ==
    /\ NoRun
    /\ tensor = [at |-> "none"]
    /\ lcorr = [at |-> "none"]
    /\ interaction = [at |-> "none"]
    /\ local = [at |-> "none"]
    /\ mf = [at |-> "none"]
    /\ \E corrects \in BOOLEAN, saves \in BOOLEAN, type \in LambdaTypes,
          left_over \in BOOLEAN, max_iter \in ChiIters :
            chiq = [at |-> "run",
                   config |-> [perform_lambda_correction |-> corrects,
                               save_quantities |-> saves, type |-> type,
                               max_iter |-> max_iter],
                   iter |-> [r \in Ranks |-> 1],
                   pc |-> [r \in Ranks |-> "dens"],
                   gathered |-> {},
                   inbox |-> [r \in Ranks |-> <<>>],
                   files |-> IF left_over THEN ("dens" :> 0) @@ ("magn" :> 0) ELSE <<>>,
                   loaded |-> <<>>]

NextChi ==
    \/ \E r \in Ranks, ch \in Channels : ChiEnter(r, ch)
    \/ \E ch \in Channels : ChiLambdaRoot(ch)
    \/ \E r \in NonRoot, ch \in Channels : ChiScatterRecv(r, ch)
    \/ \E r \in Ranks : ChiIterationEnd(r)

SpecChi == InitChi /\ [][NextChi]_vars

(***************************************************************************)
(* Properties.                                                             *)
(***************************************************************************)
BeforeMu == {"iter", "chi_dens_root", "chi_dens_scatter", "chi_magn_root",
             "chi_magn_scatter", "kernel", "kernel_scatter", "reduce_wait", "mu"}
InLoop == BeforeMu \cup {"mix", "save", "conv"}
Left == {"exit", "done"}
\* the iterations rank r has entered
Entered(r) ==
    IF pc[r] \in {"hf", "start"} \/ cfg.max_iter = 0 THEN 0
    ELSE current_iter[r] - starting_iter[r]
\* the iterations rank r has been through to their end
Completed(r) == IF pc[r] \in Left THEN Entered(r) ELSE Entered(r) - 1
Checkpoints == cfg.save_iter /\ cfg.save_quantities
Snapshots == dirs["out"].snap

\* C1: the loop always ends, and ends normally: no rank leaves it by an
\* error; an iteration in progress has a number in starting_iter + 1 ..
\* starting_iter + max_iter; a rank that has left the loop has been through
\* at most max_iter iterations, and through exactly max_iter when it did not
\* see convergence, and it returns the mixed self-energy of its last iteration.
C1_LoopEndsNormally ==
    \A r \in Ranks :
        /\ pc[r] # "raised"
        /\ pc[r] \in InLoop => Entered(r) \in 1 .. cfg.max_iter
        /\ pc[r] \in Left =>
              /\ Entered(r) <= cfg.max_iter
              /\ converged[r] \/ Entered(r) = cfg.max_iter
              /\ Entered(r) >= 1 => sigma_old[r] = sigma_new[r]

C3_SameLastIteration ==
    \A r \in Ranks, q \in Ranks :
        pc[r] \in Left =>
            /\ current_iter[q] <= current_iter[r]
            /\ pc[q] \in Left =>
                  current_iter[q] = current_iter[r] /\ converged[q] = converged[r]

\* every rank has left the loop on convergence, before the budget was used up
C3_Witness ==
    /\ \A r \in Ranks : pc[r] = "done" /\ converged[r]
    /\ Entered(0) >= 2
    /\ Entered(0) < cfg.max_iter

\* C4: the broadcast state is the same on all ranks: once a rank has the
\* Hartree and Fock terms they are those of rank 0, and a rank that is
\* through as many iterations as rank 0, neither of them past the update of
\* the chemical potential, holds the chemical potential, its history and the
\* self-energy iterate of rank 0.
C4_ReplicatedState ==
    \A r \in NonRoot :
        /\ pc[r] # "hf" => hartree[r] = hartree[0] /\ fock[r] = fock[0]
        /\ (/\ pc[r] \in BeforeMu \cup Left
            /\ pc[0] \in BeforeMu \cup Left
            /\ Completed(r) = Completed(0))
              => /\ sigma_old[r] = sigma_old[0]
                 /\ mu[r] = mu[0]
                 /\ mu_history[r] = mu_history[0]

\* a rank other than 0 is at the start of a new iteration with a chemical
\* potential that is not the initial one and an iterate that is not the
\* starting one
C4_Witness ==
    \E r \in NonRoot :
        /\ pc[r] \in BeforeMu /\ pc[0] \in BeforeMu
        /\ Completed(r) = 1 /\ Completed(0) = 1
        /\ mu[r] # cfg.mu
        /\ sigma_old[r] # cfg.sigma_dmft
        /\ hartree[r] # 0

\* C5: no two ranks write the same file: a file is written by rank 0 only,
\* or its name holds the rank that writes it.
C5_NoSharedFile ==
    \A f \in DOMAIN writers :
        \/ writers[f] = {0}
        \/ f.rank # -1 /\ writers[f] = {f.rank}

\* the numbers of the snapshots a run found when it started: those in the
\* previous-run directory that this run did not write
FoundSnapshots ==
    IF cfg.previous_sc_path \in Dirs
    THEN {n \in DOMAIN dirs[cfg.previous_sc_path].snap :
             IterFile("sigma_dga_iteration", n) \notin DOMAIN writers}
    ELSE {}

\* C6: a rank that is past get_starting_sigma counts from the largest
\* snapshot number n found in the previous-run directory and, until its
\* first iteration ends, holds the self-energy of that snapshot, and the
\* first iteration has the number n + 1; without a snapshot (path empty,
\* missing, or without a file the pattern matches) it counts from 0 and
\* holds the DMFT self-energy.
C6_StartingSigma ==
    \A r \in Ranks :
        pc[r] \notin {"hf", "start"} =>
            /\ IF FoundSnapshots = {}
               THEN starting_iter[r] = 0
               ELSE /\ starting_iter[r] \in FoundSnapshots
                    /\ \A n \in FoundSnapshots : n <= starting_iter[r]
            /\ Completed(r) <= 0 =>
                  sigma_old[r] = IF FoundSnapshots = {}
                                 THEN cfg.sigma_dmft
                                 ELSE dirs[cfg.previous_sc_path].snap[starting_iter[r]]
            /\ (pc[r] \in InLoop /\ Len(mu_history[r]) = 1) =>
                  current_iter[r] = starting_iter[r] + 1

\* a rank has started its first iteration from the highest of several
\* snapshots
C6_Witness ==
    \E r \in Ranks :
        /\ pc[r] \in InLoop
        /\ Cardinality(FoundSnapshots) >= 2
        /\ current_iter[r] = MaxPrev + 1
        /\ sigma_old[r] = PrevSnapshot(MaxPrev)

\* the saved iterates the mixing of rank 0 can read
AvailableIterates ==
    DOMAIN Snapshots \cup
        (IF cfg.previous_sc_path \in Dirs THEN DOMAIN dirs[cfg.previous_sc_path].snap ELSE {})

\* C7: when rank 0 has taken the Pulay branch, at least
\* mixing_history_length saved iterates were there for it; when it has not,
\* the mixed self-energy is the linear mix of sigma_new and sigma_old.
C7_PulayOnlyWithHistory ==
    /\ (pc[0] \in {"save", "raised"} /\ mixed_by = "pulay") =>
          Cardinality(AvailableIterates) >= cfg.mixing_history_length
    /\ (pc[0] = "save" /\ mixed_by = "linear") =>
          \A e \in Elems :
              sigma_new[0][e] =
                  (cfg.mixing.num * mix_in.new[e]
                     + (cfg.mixing.den - cfg.mixing.num) * mix_in.old[e]) \div cfg.mixing.den

\* the chemical potential of the running iteration of rank 0 has been found
MuUpdated == Len(mu_history[0]) = Entered(0) + 1
\* sigma_new of rank 0 is what the all-reduce and the attached DMFT tail made it
Unmixed == \A e \in Elems \ Core : sigma_new[0][e] = cfg.sigma_dmft[e]
\* the mixing of the running iteration of rank 0 has been applied
Mixed ==
    /\ mixed_by # "none"
    /\ mix_in.old = sigma_old[0]
    /\ mixed_by = "linear" =>
          \A e \in Elems :
              cfg.mixing.den * sigma_new[0][e]
                  >= cfg.mixing.num * mix_in.new[e]
                       + (cfg.mixing.den - cfg.mixing.num) * mix_in.old[e]
                       - (cfg.mixing.den - 1)
\* the snapshot of the running iteration of rank 0 is on disk
Persisted ==
    /\ current_iter[0] \in DOMAIN Snapshots
    /\ Snapshots[current_iter[0]] = sigma_new[0]

\* the order of the chemical potential, the mixing and the convergence test
C8_MuMixTest ==
    /\ pc[0] \in BeforeMu => ~MuUpdated
    /\ pc[0] = "mix" => MuUpdated /\ Unmixed
    /\ pc[0] \in {"save", "conv"} => MuUpdated /\ Mixed

\* C8, as claimed: on rank 0 the chemical potential is updated before the
\* mixing, the mixing is applied before the convergence test, and the
\* snapshot of the iteration is not on disk until the convergence test is
\* done.
C8_OrderAsClaimed ==
    /\ C8_MuMixTest
    /\ pc[0] \in {"mix", "save", "conv"} => current_iter[0] \notin DOMAIN Snapshots

\* C8, amended: on rank 0 the chemical potential is updated before the
\* mixing, the mixing is applied before the convergence test, and with
\* checkpointing on the snapshot of the iteration is written after the
\* mixing and before the convergence test.
C8_OrderAmended ==
    /\ C8_MuMixTest
    /\ pc[0] \in {"mix", "save"} => current_iter[0] \notin DOMAIN Snapshots
    /\ (pc[0] = "conv" /\ Checkpoints) => Persisted
    /\ (pc[0] = "conv" /\ ~Checkpoints) => current_iter[0] \notin DOMAIN Snapshots

\* rank 0 is about to test convergence and the snapshot is on disk
C8_Witness ==
    /\ pc[0] = "conv"
    /\ Checkpoints
    /\ Persisted
    /\ sigma_new[0] # mix_in.new
    /\ mu[0] # cfg.mu

\* the toy scenario: no interaction, a fresh run
Toy(r) == cfg.u = 0 /\ cfg.sigma_dmft = Zero /\ pc[r] \in Left /\ starting_iter[r] = 0
\* the second iteration mixes linearly
LinearInSecond == ~(cfg.mixing_strategy = "pulay" /\ cfg.mixing_history_length < 2 /\ Checkpoints)

C10_LinearMixing ==
    (pc[0] = "save" /\ mixed_by = "linear") =>
        \A e \in Elems :
            LET a == cfg.mixing
                exact == a.num * mix_in.new[e] + (a.den - a.num) * mix_in.old[e]
            IN  /\ a.den * sigma_new[0][e] <= exact
                /\ exact < a.den * sigma_new[0][e] + a.den
                /\ a.num = a.den => sigma_new[0][e] = mix_in.new[e]
                /\ a.num = 0 => sigma_new[0][e] = mix_in.old[e]

\* two different self-energies have been mixed with factor 0
C10_Witness ==
    /\ pc[0] = "save"
    /\ mixed_by = "linear"
    /\ cfg.mixing.num = 0
    /\ mix_in.new # mix_in.old
    /\ sigma_new[0] = mix_in.old

(***************************************************************************)
(* Properties of the frequency axes of a LocalNPoint (SpecTensor).         *)
(***************************************************************************)
HalfRange(t) == t.num_wn_dimensions = 1 /\ ~t.full_niw_range

\* the index at -w with the position on every fermionic axis reversed
Reversed(i) == [k \in DOMAIN i |-> IF k = 1 THEN -i[1] ELSE 1 - i[k]]

\* C19: to_full_niw_range on a tensor stored in half bosonic range (0, 1 or 2
\* fermionic axes) keeps the entries at w >= 0 and sets the entry at -w (w > 0)
\* to the complex conjugate of the entry at w with all fermionic axes reversed;
\* a following to_half_niw_range gives back the original data; a conversion of
\* a tensor already in the target range, or without bosonic axis, changes nothing.
C19_FullRangeAndBack ==
    tensor.at = "object" =>
        LET t == tensor.given
            o == tensor.obj
        IN  /\ (HalfRange(t) /\ tensor.calls = <<"to_full_niw_range">>) =>
                /\ o.full_niw_range
                /\ o.num_wn_dimensions = 1
                /\ o.num_vn_dimensions = t.num_vn_dimensions
                /\ \A i \in DOMAIN t.mat :
                      /\ o.mat[i] = t.mat[i]
                      /\ i[1] > 0 => o.mat[Reversed(i)] = <<t.mat[i][1], -t.mat[i][2]>>
                /\ \A j \in DOMAIN o.mat : j \in DOMAIN t.mat \/ Reversed(j) \in DOMAIN t.mat
            /\ (HalfRange(t) /\ tensor.calls = <<"to_full_niw_range", "to_half_niw_range">>) =>
                o = t
            /\ (tensor.calls = <<"to_full_niw_range">>
                  /\ (t.num_wn_dimensions = 0 \/ t.full_niw_range)) => o = t
            /\ (tensor.calls = <<"to_half_niw_range">>
                  /\ (t.num_wn_dimensions = 0 \/ ~t.full_niw_range)) => o = t

\* a half-range tensor with two fermionic axes and entries with an imaginary part
\* has been converted to full range and back
C19_Witness ==
    /\ tensor.at = "object"
    /\ tensor.calls = <<"to_full_niw_range", "to_half_niw_range">>
    /\ HalfRange(tensor.given)
    /\ tensor.given.num_vn_dimensions = 2
    /\ tensor.given.mat[<<1, 0, 1>>] = <<1, 2>>
    /\ tensor.given.mat[<<1, 1, 0>>] = <<3, 0>>

DiagonalCalls == {"extend_vn_to_diagonal", "take_vn_diagonal"}

\* C20: extend_vn_to_diagonal on a tensor with one fermionic axis gives a tensor
\* with two fermionic axes whose entry at (v, v) is the original entry at v and
\* whose entries at (v, v'), v # v', are exactly zero; take_vn_diagonal of the
\* result is the original tensor; on a tensor without fermionic axis both
\* operations raise ValueError.
C20_DiagonalAndBack ==
    LET t == tensor.given
        o == tensor.obj
        n == Len(tensor.calls)
    IN  /\ (n > 0 /\ tensor.calls[n] \in DiagonalCalls /\ t.num_vn_dimensions = 0) =>
            tensor.at = "ValueError"
        /\ (t.num_vn_dimensions = 1 /\ tensor.calls = <<"extend_vn_to_diagonal">>) =>
            /\ tensor.at = "object"
            /\ o.num_vn_dimensions = 2
            /\ DOMAIN o.mat = Indices(t.num_wn_dimensions, 2, t.full_niw_range)
            /\ \A i \in DOMAIN o.mat :
                  LET k == Len(i)
                  IN  o.mat[i] = IF i[k - 1] = i[k] THEN t.mat[SubSeq(i, 1, k - 1)]
                                 ELSE <<0, 0>>
        /\ (t.num_vn_dimensions = 1
              /\ tensor.calls = <<"extend_vn_to_diagonal", "take_vn_diagonal">>) =>
            tensor.at = "object" /\ o = t

\* a tensor with a bosonic and one fermionic axis has been extended and reduced
C20_Witness ==
    /\ tensor.at = "object"
    /\ tensor.calls = <<"extend_vn_to_diagonal", "take_vn_diagonal">>
    /\ tensor.given.num_vn_dimensions = 1
    /\ tensor.given.num_wn_dimensions = 1
    /\ tensor.given.mat[<<0, 0>>] # tensor.given.mat[<<0, 1>>]

(***************************************************************************)
(* Properties of the lambda correction (SpecLambda).                       *)
(***************************************************************************)
Searched == lcorr.at = "returned" /\ lcorr.by # "none"

\* the value the variable lambda_ holds after the pass made last
LastTrial ==
    IF flt(lcorr.lambda_new, lcorr.tried) THEN fadd(lcorr.lambda_start, lcorr.delta)
    ELSE lcorr.lambda_new

\* C11: find_lambda returns after at most maxiter passes of its loop for every
\* input, also for a target sum that cannot be reached: it raises nothing, and
\* with maxiter exhausted it returns the last trial lambda of the search.
C11_FindLambdaReturns ==
    /\ lcorr.at # "none" => lcorr.passes <= maxiter
    /\ lcorr.at = "find_lambda" => lcorr.passes < maxiter
    /\ lcorr.at = "ValueError" => lcorr.passes = 0 /\ lcorr.type \notin {"spch", "sp"}
    /\ (Searched /\ lcorr.by = "maxiter") =>
          /\ lcorr.passes = maxiter
          /\ ~flt(fabs(lcorr.f_lam), eps)
          /\ lcorr.lambda_r = LastTrial

\* the target sum is negative, which no lambda above lambda_start reaches, and the
\* search has returned with maxiter exhausted
C11_Witness ==
    /\ Searched
    /\ lcorr.by = "maxiter"
    /\ lcorr.chi_r_loc_sum < 0
    /\ lcorr.passes = maxiter

\* a pass of the loop that does not return through the test against eps
C12_Pass ==
    /\ lcorr.at = "find_lambda"
    /\ lcorr'.passes = lcorr.passes + 1
    /\ lcorr'.by # "eps"

C12_Restarted ==
    /\ lcorr'.delta = fdiv(lcorr.delta, Number(2))
    /\ lcorr'.lambda_ = fadd(lcorr.lambda_start, lcorr'.delta)

C12_Continued ==
    /\ lcorr'.delta = lcorr.delta
    /\ lcorr'.lambda_ = lcorr'.lambda_new

\* C12 as claimed: delta is halved and the search restarted from lambda_start + delta
\* exactly when the Newton value is below lambda_start; in every other case the
\* Newton value becomes the next trial lambda and delta is left unchanged.
C12_RestartBelowStart ==
    [][C12_Pass => IF flt(lcorr'.lambda_new, lcorr.lambda_start) THEN C12_Restarted
                   ELSE C12_Continued]_vars

\* C12 amended: delta is halved and the search restarted from lambda_start + delta
\* exactly when the Newton value is below the current trial lambda; in every other
\* case the Newton value becomes the next trial lambda and delta is left unchanged.
C12_RestartBelowTrial ==
    [][C12_Pass => IF flt(lcorr'.lambda_new, lcorr.lambda_) THEN C12_Restarted
                   ELSE C12_Continued]_vars

\* the pass made last found a Newton value below the trial lambda and not below
\* lambda_start, and the search was restarted with delta halved
C12_Witness ==
    /\ lcorr.at = "find_lambda"
    /\ lcorr.passes > 0
    /\ flt(lcorr.lambda_new, lcorr.tried)
    /\ ~flt(lcorr.lambda_new, lcorr.lambda_start)
    /\ lcorr.delta = fdiv(delta, Number(2))
    /\ lcorr.lambda_ = fadd(lcorr.lambda_start, lcorr.delta)

\* C13: the lambda returned by find_lambda satisfies the target: the weighted sum
\* of apply_lambda(chi, lambda) differs from the target sum by less than eps.
C13_ReturnedMeetsTarget ==
    Searched =>
        flt(fabs(f_lam(lcorr.chi_r_mat, lcorr.lambda_r, lcorr.chi_r_loc_sum, lcorr.beta)), eps)

\* the sum over the full bosonic range of the local susceptibility of a channel
LocalSum(channel) ==
    LET chi == IF channel = "dens" THEN lcorr.chi_dens_loc ELSE lcorr.chi_magn_loc
    IN  chi[0] + 2 * chi[1]

\* C14: in mode 'sp' only the magnetic channel is corrected and a susceptibility of
\* the density channel is returned unchanged; in mode 'spch' the density and the
\* magnetic channel are each corrected against their own local sum, whatever the
\* other channel holds.
C14_ChannelsCorrected ==
    /\ (lcorr.at = "returned" /\ lcorr.type = "sp" /\ lcorr.channel = "dens") =>
          /\ lcorr.by = "none"
          /\ lcorr.passes = 0
          /\ lcorr.result = lcorr.chi_phys_q_r
    /\ (lcorr.at = "returned" /\ lcorr.type = "sp" /\ lcorr.channel = "magn") => Searched
    /\ (lcorr.at = "returned" /\ lcorr.type = "spch") =>
          /\ Searched
          /\ lcorr.chi_r_loc_sum * lcorr.beta = LocalSum(lcorr.channel)
          /\ \A q \in IrrQ, w \in WnHalf :
                lcorr.result[<<q, w>>] =
                    fdiv(Number(1), fadd(fdiv(Number(1), lcorr.chi_phys_q_r[<<q, w>>]),
                                         lcorr.lambda_r))

\* mode 'spch': the density channel has been corrected while the local sums of the
\* two channels differ
C14_Witness ==
    /\ lcorr.at = "returned"
    /\ lcorr.type = "spch"
    /\ lcorr.channel = "dens"
    /\ lcorr.by = "eps"
    /\ LocalSum("dens") # LocalSum("magn")
    /\ lcorr.result # lcorr.chi_phys_q_r

(***************************************************************************)
(* Properties of the spin-channel tag (SpecInteraction).                   *)
(***************************************************************************)
\* C18: as_channel on an interaction tagged NONE returns an object tagged with the
\* requested channel; on an object tagged with a different channel it raises an
\* error; on an object tagged with the requested channel it returns an equal
\* copy.  In all three cases the tag and the data of the object it was called on
\* are unchanged.
C18_TagWrittenOnce ==
    interaction.at \in {"returned", "ValueError"} =>
        LET given == interaction.given
            requested == interaction.requested
        IN  /\ interaction.heap[interaction.self] = given
            /\ (given.channel = "none" /\ requested # "none") =>
                  /\ interaction.at = "returned"
                  /\ interaction.ref # interaction.self
                  /\ interaction.heap[interaction.ref].channel = requested
            /\ (given.channel # "none" /\ given.channel # requested) =>
                  interaction.at = "ValueError"
            /\ given.channel = requested =>
                  /\ interaction.at = "returned"
                  /\ interaction.ref # interaction.self
                  /\ interaction.heap[interaction.ref] = given

\* an untagged local interaction has been cast into the density channel, which
\* changes its data
C18_Witness ==
    /\ interaction.at = "returned"
    /\ interaction.given.kind = "local"
    /\ interaction.given.channel = "none"
    /\ interaction.requested = "dens"
    /\ interaction.heap[interaction.ref].mat # interaction.given.mat

\* C15: in perform_local_schwinger_dyson every call of create_vertex_functions
\* leaves the bare bubble as it was handed over, so the magnetic call is
\* handed gchi0 in the same form and with the same content as the density call
C15_BubbleUnchanged ==
    local.at \in {"magn", "sigma", "returned"} =>
        \A k \in 1 .. Len(local.handed) :
            /\ local.handed[k].gchi0 = local.handed[1].gchi0
            /\ local.gchi0 = local.handed[k].gchi0

\* C16: once create_vertex_functions has returned for a channel, no name of
\* the solver or of its caller is bound to G2 or to chi_r of that channel
C16_Released ==
    local.at \in {"magn", "sigma", "returned"} =>
        \A k \in 1 .. Len(local.handed) :
            /\ Object("g2", local.handed[k].channel) \notin Held
            /\ Object("gchi_r", local.handed[k].channel) \notin Held

\* the files of intermediate quantities
Intermediate ==
    {"g_dga", "gchi0_q_rank", "gchi0_q_inv_rank", "kernel_dc_rank", "gchi_aux_q", "vrg_q",
     "gchi_aux_q_sum", "kernel", "chi_phys_q", "gchi0_loc", "gchi_inverted",
     "chi_tilde_core_inv"}

\* C17: with every flag that controls an intermediate file disabled, neither
\* the local nor the nonlocal solver writes an intermediate file
C17_NoFlagNoFile ==
    /\ (~cfg.perform_eliashberg /\ ~cfg.save_quantities /\ ~cfg.perform_lambda_correction) =>
           \A f \in DOMAIN writers : f.name \notin Intermediate
    /\ (local.at # "none" /\ ~local.config.perform_eliashberg) =>
           \A f \in local.files : f.name \notin Intermediate

\* C23: get_frequency_shift returns (0, w) for PLUS, (0, -w) for MINUS and
\* (floor(w/2), -(floor(w/2) + w mod 2)) for CENTER, for w of either sign, so
\* that the two offsets are w apart; any other notation raises
\* NotImplementedError
C23_FrequencyShift ==
    mf.at # "none" /\ mf.at # "called" /\ mf.fn = "get_frequency_shift" =>
        LET w == mf.args.wn
            notation == mf.args.freq_notation
            floor_half == CHOOSE h \in -MaxWn .. MaxWn : 2 * h <= w /\ w < 2 * h + 2
        IN  IF notation = "plus"
            THEN mf.at = "returned" /\ mf.result = <<0, w>> /\ mf.result[2] - mf.result[1] = w
            ELSE IF notation = "minus"
            THEN mf.at = "returned" /\ mf.result = <<0, -w>> /\ mf.result[1] - mf.result[2] = w
            ELSE IF notation = "center"
            THEN /\ mf.at = "returned"
                 /\ mf.result = <<floor_half, -(floor_half + (w - 2 * floor_half))>>
                 /\ mf.result[1] - mf.result[2] = w
            ELSE mf.at = "NotImplementedError"

C23_Witness ==
    /\ mf.at = "returned"
    /\ mf.fn = "get_frequency_shift"
    /\ mf.args.freq_notation = "center"
    /\ mf.args.wn = -3
    /\ mf.result = <<-2, 1>>

\* C30: every index triple of the ph->pp and of the ph->ph-bar map is a
\* position in a tensor of the input box: 0 <= w' <= 2 niw and
\* 0 <= v1', v2' < 2 niv
C30_IndicesInBox ==
    mf.at = "returned" /\ mf.fn \in {"ph_to_pp", "ph_to_ph_bar"} =>
        \A i \in DOMAIN mf.result :
            /\ 0 <= mf.result[i][1] /\ mf.result[i][1] <= 2 * mf.args.niw
            /\ 0 <= mf.result[i][2] /\ mf.result[i][2] < 2 * mf.args.niv
            /\ 0 <= mf.result[i][3] /\ mf.result[i][3] < 2 * mf.args.niv

\* the number of entries along axis k of a tensor
AxisLength(t, k) == Cardinality({i[k] : i \in DOMAIN t.mat})

C22_Construction ==
    tensor.at \in {"constructed", "AssertionError"} =>
        (tensor.at = "constructed" <=>
            /\ tensor.args.num_orbital_dimensions \in {0, 2, 4}
            /\ tensor.args.num_wn_dimensions \in {0, 1}
            /\ tensor.args.num_vn_dimensions \in {0, 1, 2}
            /\ tensor.args.non_local =>
                  /\ tensor.args.num_q_dimensions \in {0, 1}
                  /\ tensor.args.num_k_dimensions \in {0, 1, 2})

C22_Witness ==
    /\ tensor.at = "AssertionError"
    /\ tensor.args.non_local
    /\ tensor.args.num_orbital_dimensions = 2
    /\ tensor.args.num_wn_dimensions = 1
    /\ tensor.args.num_q_dimensions = 1
    /\ tensor.args.num_k_dimensions = 3

C24_ErrorStopsEveryRank ==
    (chiq.at = "run" /\ chiq.pc[0] = "ValueError") =>
        \A r \in NonRoot : ~(chiq.pc[r] \in {"scatter_dens", "scatter_magn"} /\ chiq.inbox[r] = <<>>)

\* C28: in mode 'sp' rank 0 reads chi_phys_q_dens for the magnetic channel
\* only after it has written it in the same iteration: the file is never
\* missing and never one of an earlier iteration
C28_DensWrittenBeforeRead ==
    chiq.at = "run" =>
        /\ chiq.pc[0] # "FileNotFoundError"
        /\ \A k \in 1 .. Len(chiq.loaded) : chiq.loaded[k].written = chiq.loaded[k].iter

\* the magnetic correction of the second iteration has read the file, which
\* was there before the run and has been written in both iterations
C28_Witness ==
    /\ chiq.at = "run"
    /\ chiq.config.type = "sp"
    /\ Len(chiq.loaded) = 2
    /\ chiq.loaded[2].iter = 2
    /\ chiq.loaded[2].written = 2

\* the collective a rank other than 0 takes part in next, by the message of
\* rank 0 it is handed there
NextMessage(r) ==
    IF pc[r] = "hf" THEN "hf"
    ELSE IF pc[r] \in {"start", "iter"}
         THEN (IF ChiGathered THEN AtChiScatter("dens") ELSE "kernel_scatter")
    ELSE IF pc[r] \in {AtChiScatter("dens"), AtChiScatter("magn"), "kernel_scatter"} THEN pc[r]
    ELSE IF pc[r] \in {"reduce_wait", "mu"} THEN "mu"
    ELSE IF pc[r] = "mix" THEN "sigma"
    ELSE IF pc[r] = "conv" THEN "converged"
    ELSE "none"

\* the gather rank 0 calls next, by the quantity it collects there
NextGather ==
    IF pc[0] \in {"start", "iter"} THEN (IF ChiGathered THEN "dens" ELSE "kernel")
    ELSE IF pc[0] = AtChiRoot("dens") THEN "dens"
    ELSE IF pc[0] = AtChiRoot("magn") THEN "magn"
    ELSE IF pc[0] = "kernel" THEN "kernel"
    ELSE "none"

\* rank r is inside a collective that the ranks it waits for have not reached:
\* a bcast or scatter whose message rank 0 has not sent, a gather to which a
\* rank has not contributed, the all-reduce before every rank has entered it
Blocked(r) ==
    IF r = 0
    THEN \/ NextGather # "none" /\ pc[0] \notin {"start", "iter"}
            /\ \E q \in NonRoot : <<NextGather, q>> \notin gathered
         \/ pc[0] = "reduce_wait" /\ \E q \in Ranks : reduce_buf[q] = NoPartial
    ELSE \/ pc[r] \in {"hf", AtChiScatter("dens"), AtChiScatter("magn"), "kernel_scatter",
                       "mu", "mix", "conv"} /\ inbox[r] = <<>>
         \/ pc[r] = "reduce_wait" /\ \E q \in Ranks : reduce_buf[q] = NoPartial

\* C26: every rank meets the collectives in the order in which rank 0 calls
\* them, whatever rank-only branch lies between them, and as long as no rank
\* has raised an error a rank that has not returned can take a step or waits
\* for a rank that can: no rank blocks forever and every iteration completes
C26_CollectivesInOrder ==
    /\ \A r \in NonRoot : inbox[r] # <<>> => Head(inbox[r])[1] = NextMessage(r)
    /\ \A g \in gathered : g[1] = NextGather
    /\ (\A r \in Ranks : pc[r] # "raised") =>
          \/ \A r \in Ranks : pc[r] = "done"
          \/ \E r \in Ranks : pc[r] # "done" /\ ~Blocked(r)

\* a resumed or fresh run with the susceptibilities gathered has completed
\* two iterations and returned on every rank
C26_Witness ==
    /\ \A r \in Ranks : pc[r] = "done" /\ current_iter[r] >= starting_iter[r] + 2
    /\ ChiGathered
    /\ \A r \in Ranks : inbox[r] = <<>>

\* the iteration numbers of the iterates that the Pulay branch reads from
\* disk, in the order of the list it builds from them
HistoryIterations ==
    LET entries == read_last_n_entries(cfg.mixing_history_length, "out", cfg.previous_sc_path)
    IN  [i \in 1 .. Len(entries) |-> entries[i][1]]
\* the iteration numbers behind last_proposals (0: sigma_dmft) and last_results
ProposalIterations == <<0>> \o HistoryIterations
ResultIterations == Append(HistoryIterations, current_iter[0])
\* the iterations that have a snapshot in a directory that is read
SavedIterations ==
    DOMAIN dirs["out"].snap
      \cup (IF cfg.previous_sc_path # "" /\ PathExists(cfg.previous_sc_path)
            THEN DOMAIN dirs[cfg.previous_sc_path].snap ELSE {})
\* rank 0 is about to run the Pulay branch to its end
InPulayBranch == pc[0] = "mix" /\ pulay_branch(current_iter[0]) /\ ~pulay_index_error(sigma_new[0])

\* C27: in the Pulay branch the residual of this iteration is taken against
\* the iterate of iteration current_iter - 1, every history column pairs the
\* iterates of two consecutive iterations in chronological order, and the
\* iterates read from disk are those of distinct iterations, the highest ones
C27_ChronologicalHistory ==
    InPulayBranch =>
        /\ FromEnd(ProposalIterations, 1) = current_iter[0] - 1
        /\ \A i \in 0 .. (cfg.mixing_history_length - 1) :
              /\ FromEnd(ResultIterations, 1 + i) = FromEnd(ResultIterations, 2 + i) + 1
              /\ FromEnd(ProposalIterations, 1 + i) = FromEnd(ProposalIterations, 2 + i) + 1
        /\ \A i, j \in DOMAIN HistoryIterations :
              i # j => HistoryIterations[i] # HistoryIterations[j]
        /\ \A n \in SavedIterations :
              (\E i \in DOMAIN HistoryIterations : HistoryIterations[i] = n)
                \/ (\A i \in DOMAIN HistoryIterations : HistoryIterations[i] > n)

\* the iterations of this run whose snapshot step rank 0 has passed
Saved == IF pc[0] = "conv" THEN Entered(0) ELSE Completed(0)
\* the numbers of the snapshots this run has written
WrittenSnapshots ==
    {n \in DOMAIN Snapshots : IterFile("sigma_dga_iteration", n) \in DOMAIN writers}

\* C29: with checkpointing on, the snapshots of a run that started from
\* counter s are those of its iterations, one each, numbered s + 1, s + 2, ...
\* without a gap, the iteration that detects convergence included, and rank 0
\* alone writes them; the snapshot of an iteration holds the mixed
\* self-energy that is sigma_old afterwards, and a snapshot with a number up
\* to s, the one the run resumed from among them, keeps what it held
C29_SnapshotPerIteration ==
    Checkpoints =>
        /\ WrittenSnapshots = (starting_iter[0] + 1) .. (starting_iter[0] + Saved)
        /\ \A f \in DOMAIN writers :
              f.name = "sigma_dga_iteration" =>
                  /\ writers[f] = {0}
                  /\ f.iter > starting_iter[0]
                  /\ f.iter \in DOMAIN Snapshots
        /\ pc[0] = "conv" => Snapshots[current_iter[0]] = sigma_new[0]
        /\ \A r \in Ranks :
              Completed(r) >= 1 /\ pc[r] # "raised" =>
                  sigma_old[r] = Snapshots[starting_iter[r] + Completed(r)]
        /\ \A d \in Dirs : \A n \in DOMAIN dirs[d].snap :
              n \notin WrittenSnapshots \/ d # "out" => dirs[d].snap[n] = PrevSnapshot(n)

\* a run resumed from the snapshots of its own output directory has detected
\* convergence and returned on every rank
C29_Witness ==
    /\ Checkpoints
    /\ cfg.previous_sc_path = "out"
    /\ starting_iter[0] = MaxPrev
    /\ converged[0]
    /\ \A r \in Ranks : pc[r] = "done"
    /\ Saved = 2

====
